---- MODULE Spec2Model ----
(***************************************************************************)
(* The step-submission gateway of exai-ui-mcp: POST /api/exai/[tool]       *)
(* (src/app/app/api/exai/[tool]/route.ts) running against the persistence  *)
(* adapter that AdapterFactory hands out (LocalDatabaseAdapter, Prisma) and *)
(* the tool execution adapter (LocalExaiAdapter.executeTool).               *)
(*                                                                         *)
(* Every request is an async handler; the code between two awaits runs     *)
(* atomically on the Node event loop, so each action below is one awaited  *)
(* operation together with the synchronous code that follows it.  Several  *)
(* requests may be in flight and interleave at their awaits.               *)
(***************************************************************************)
EXTENDS Integers, Sequences, FiniteSets, TLC

\* ------------------------------------------------------------ bounds
\* concurrent request handlers
NumReq == 2
\* submissions accepted by the server in one behaviour
MaxSubmissions == 2
\* largest step_number / total_steps a client sends
MaxStep == 2

\* ------------------------------------------------------------ values
Null == "null"
Absent == "absent"
NoUser == "nouser"
Users == {"u1", "u2"}
Sessions == Users \cup {NoUser}

VALID_TOOLS == {"debug"}
ToolNames == VALID_TOOLS \cup {"bogus"}

Req == 1..NumReq
\* an id no record carries (ids are 1..n in creation order, n <= MaxSubmissions)
GhostId == MaxSubmissions + 1
StepNumbers == 0..MaxStep
TotalSteps == {MaxStep}

\* sample request bodies: the optional fields a client may send or omit;
\* trace_mode is a field of one tool that toolSchema does not name
FullBody ==
  [step |-> "s2", findings |-> "f2", hypothesis |-> "h1", confidence |-> "high",
   continuation_id |-> "k1", trace_mode |-> "precision"]
Bodies ==
  { [step |-> "s1", findings |-> "f1", hypothesis |-> Absent, confidence |-> Absent,
     continuation_id |-> Absent, trace_mode |-> Absent],
    FullBody,
    [step |-> "s1", findings |-> "f1", hypothesis |-> "", confidence |-> "low",
     continuation_id |-> "", trace_mode |-> ""] }

\* bodies zod rejects for a string field: step empty or missing, findings missing
InvalidBodies ==
  { [FullBody EXCEPT !.step = ""],
    [FullBody EXCEPT !.step = Absent],
    [FullBody EXCEPT !.findings = Absent] }

\* how the JSON body carries the typed fields: a number is an integer or has a
\* fractional part (the model then holds its integer part), the boolean is there
\* or missing
WellTyped ==
  [step_number |-> "int", total_steps |-> "int", next_step_required |-> "boolean"]
Shapes ==
  { WellTyped,
    [WellTyped EXCEPT !.step_number = "fraction"],
    [WellTyped EXCEPT !.total_steps = "fraction"],
    [WellTyped EXCEPT !.next_step_required = "missing"] }

\* responses of the execution backend: every call gets a response object of its
\* own, named here after the handler that made the call
Responses == {"rA", "rB", "rC"}
ResponseTo(r) == {IF r = 1 THEN "rA" ELSE IF r = 2 THEN "rB" ELSE "rC"}
\* ExaiResponse.continuation_id (optional): the backend issues a new handle, echoes
\* the one it was sent (FullBody's), or sends none
continuation_id(resp) ==
  IF resp = "rA" THEN "k2" ELSE IF resp = "rB" THEN "k1" ELSE Absent
\* why executeTool rejects: the request timed out, the backend answered with a
\* non-OK status, the connection failed, the body did not parse
AdapterErrors == {"timeout", "daemon", "unavailable", "malformed"}

Terminal == {"completed", "failed"}

VARIABLES
  conversations,  \* table: id -> [userId, toolType, title, updatedAt]; updatedAt
                  \* counts the writes of the timestamp
  workflows,      \* table: id -> [conversationId, toolType, status, currentStep,
                  \*               totalSteps, continuationId, result]
  steps,          \* workflow step log in creation order
  req,            \* the request handlers: position and locals of each; called
                  \* (executeTool was invoked) and prior (the workflow's status
                  \* when the handler reached it) are history
  submitted,      \* number of submissions received so far
  overlap,        \* history: did another submission to the same workflow overlap
  deleted,        \* ids of the conversations that were deleted
  messages,       \* table: id -> [conversationId, role, content], creation order
  api,            \* the handlers of the chat, conversation and messages endpoints
  received,       \* number of requests those endpoints received so far
  calls,          \* the makeRequest calls of the tool execution adapters
  db,             \* the two persistence adapters, each over a store of its
                  \* own, given the same operations one after the other
  factory,        \* AdapterFactory: its static fields, the environment's
                  \* ADAPTER_MODE, and history of what it constructed and gave
  clients,        \* the callers of the factory: position and locals of each
  stream,         \* a streamResponse generator: position, buffer, and history
                  \* of the chunks it yielded
  ui              \* the chat component: its React state, its WebSocket and
                  \* the closure bound to it, and history of the current stream

\* what the step-submission handler never touches
apiVars == <<deleted, messages, api, received>>
adapterVars == <<calls>>
\* what only the step-submission handler touches
gatewayVars == <<workflows, steps, req, submitted, overlap>>

\* what the request handlers and the EXAI calls never touch
libVars == <<db, factory, clients, stream, ui>>

vars == <<conversations, workflows, steps, req, submitted, overlap,
          deleted, messages, api, received, calls, db, factory, clients,
          stream, ui>>

\* ------------------------------------------------------------ helpers
\* JavaScript x || null on an optional string: undefined and "" are falsy
OrNull(x) == IF x = Absent \/ x = "" THEN Null ELSE x

\* `${tool} - ${step.substring(0, 50)}`; the sample steps are shorter than 50
Title(tool, step) == <<tool, " - ", step>>

\* Issues with step_number and total_steps declared z.number().min(1), without
\* .int()
IssuesAnyNumber(b, sn, ts, sh) ==
  {f \in {"step", "step_number", "total_steps", "next_step_required", "findings"} :
     \/ f = "step" /\ b.step \in {"", Absent}
     \/ f = "step_number" /\ sn < 1
     \/ f = "total_steps" /\ ts < 1
     \/ f = "next_step_required" /\ sh.next_step_required # "boolean"
     \/ f = "findings" /\ b.findings = Absent}

\* toolSchema.parse: the fields of the body zod reports an issue for (the
\* required fields; the optional ones of the sample bodies are well-typed)
Issues(b, sn, ts, sh) ==
  {f \in {"step", "step_number", "total_steps", "next_step_required", "findings"} :
     \/ f = "step" /\ b.step \in {"", Absent}
     \/ f = "step_number" /\ (sh.step_number # "int" \/ sn < 1)
     \/ f = "total_steps" /\ (sh.total_steps # "int" \/ ts < 1)
     \/ f = "next_step_required" /\ sh.next_step_required # "boolean"
     \/ f = "findings" /\ b.findings = Absent}

\* toolSchema.parse returns (does not throw a ZodError)
toolSchema(b, sn, ts, sh) == Issues(b, sn, ts, sh) = {}

\* the object a z.object(...) without .passthrough() returns: keys the schema
\* does not name are stripped
params_dataStripped(q) ==
  [f \in {"step", "findings", "hypothesis", "confidence", "continuation_id"}
     |-> q.body[f]]
  @@ [step_number |-> q.step_number, total_steps |-> q.total_steps,
      next_step_required |-> q.next_step_required,
      conversationId |-> q.conversationIdIn, workflowId |-> q.workflowIdIn]

\* params_data = toolSchema.parse(body) of a body that passes: the schema has no
\* transform, default or coercion and is .passthrough(), so every key of the
\* body comes back with the value it had (0 stands for an id that was not sent)
params_data(q) ==
  q.body
  @@ [step_number |-> q.step_number, total_steps |-> q.total_steps,
      next_step_required |-> q.next_step_required,
      conversationId |-> q.conversationIdIn, workflowId |-> q.workflowIdIn]

\* the session check with the test of session?.user left out
AuthenticatedAlways(user) == TRUE

\* getServerSession(authOptions) returned a session with a user
Authenticated(user) == user # NoUser

InFlight(r) == req[r].pc \notin {"idle", "done"}

\* ------------------------------------------------------------ persistence
ConvExists(id) == id \in 1..Len(conversations) /\ id \notin deleted
WfExists(id) == id \in 1..Len(workflows)

\* prisma.workflow.update({ where: { id }, data }): absent fields keep their value
updateWorkflow(id, data) == [workflows EXCEPT ![id] = data @@ @]

\* prisma.conversation.update({ where: { id }, data: { updatedAt } })
updateConversation(id) ==
  [conversations EXCEPT ![id].updatedAt = @ + 1]

\* prisma.workflowStep.findMany({ where: { workflowId } })
getWorkflowSteps(wid) == {i \in 1..Len(steps) : steps[i].workflowId = wid}

\* ------------------------------------------------------------ the handler
Done(r, code, e) ==
  [req[r] EXCEPT !.pc = "done", !.status = code, !.err = e]

\* a handler's locals before anything is read; payload is history: the object
\* executeTool was called with
Fresh ==
  [pc |-> "idle", tool |-> Null, user |-> NoUser, body |-> Null,
   step_number |-> 0, total_steps |-> 0, next_step_required |-> FALSE,
   conversationIdIn |-> 0, workflowIdIn |-> 0,
   conversationId |-> 0, workflowId |-> 0,
   response |-> Null, currentStepRecord |-> 0,
   called |-> FALSE, prior |-> "none", status |-> 0, err |-> "none",
   shape |-> WellTyped, details |-> {}, payload |-> <<>>]

\* the workflow a request works on: the one it named or the one it created
Target(q) == q.workflowId

\* overlap[r]: some other submission to r's workflow was in flight while r was;
\* every step of a handler brings this history up to date
Overlap ==
  overlap' = [r \in Req |->
       IF req'[r].pc = "idle" THEN FALSE
       ELSE IF req'[r].pc = "done" THEN overlap[r]
       ELSE overlap[r] \/ \E q \in Req \ {r} :
              /\ req'[q].pc \notin {"idle", "done"}
              /\ Target(req'[q]) # 0
              /\ Target(req'[q]) = Target(req'[r])]

\* lines 57-82: tool name, session, body; nothing awaited touches the store.
\* The request comes from a caller in callers; its body is one of bodies with
\* total_steps in totals and the typed fields in one of shapes.
Submit(r, callers, bodies, totals, shapes) ==
  /\ req[r].pc = "idle"
  /\ \A q \in Req : q < r => req[q].pc # "idle"
  /\ submitted + received < MaxSubmissions
  /\ submitted' = submitted + 1
  /\ \E tool \in ToolNames :
       IF tool \notin VALID_TOOLS
         \* the session is never looked up
         THEN \E user \in callers :
                req' = [req EXCEPT ![r] =
                  [Fresh EXCEPT !.pc = "done", !.tool = tool, !.user = user,
                                !.status = 400]]
         ELSE \E user \in callers :
           IF ~Authenticated(user)
             \* the body is in the request but is never read
             THEN \E b \in bodies :
                    req' = [req EXCEPT ![r] =
                      [Fresh EXCEPT !.pc = "done", !.tool = tool, !.body = b,
                                    !.status = 401]]
             ELSE \E b \in bodies, sn \in StepNumbers, ts \in totals,
                     sh \in shapes :
               IF ~toolSchema(b, sn, ts, sh)
                 THEN req' = [req EXCEPT ![r] =
                         [Fresh EXCEPT !.pc = "done", !.tool = tool, !.user = user,
                                       !.body = b, !.step_number = sn,
                                       !.total_steps = ts,
                                       !.shape = sh,
                                       !.status = 400, !.err = "zod",
                                       !.details = Issues(b, sn, ts, sh)]]
                 ELSE \E nsr \in BOOLEAN, cid \in 0..GhostId, wid \in 0..GhostId :
                   /\ cid \in {0, GhostId} \/ ConvExists(cid)
                   /\ wid \in {0, GhostId} \/ WfExists(wid)
                   /\ req' = [req EXCEPT ![r] =
                         [Fresh EXCEPT !.pc = IF cid = 0 THEN "conversation"
                                                        ELSE "workflow",
                                       !.tool = tool, !.user = user, !.body = b,
                                       !.step_number = sn, !.total_steps = ts,
                                       !.shape = sh,
                                       !.next_step_required = nsr,
                                       !.conversationIdIn = cid,
                                       !.workflowIdIn = wid,
                                       !.conversationId = cid,
                                       !.workflowId = wid]]
  /\ UNCHANGED <<conversations, workflows, steps>>
  /\ Overlap
  /\ UNCHANGED <<apiVars, adapterVars, libVars>>

\* a variant that files every new conversation under the chat tool
CreateConversationForChat(r) ==
  /\ req[r].pc = "conversation"
  /\ conversations' = Append(conversations,
        [userId |-> req[r].user, toolType |-> "chat",
         title |-> Title(req[r].tool, req[r].body.step), updatedAt |-> 0])
  /\ req' = [req EXCEPT ![r].conversationId = Len(conversations) + 1,
                        ![r].pc = "workflow"]
  /\ UNCHANGED <<workflows, steps, submitted>>
  /\ Overlap
  /\ UNCHANGED <<apiVars, adapterVars, libVars>>

\* lines 83-90: db.createConversation
CreateConversation(r) ==
  /\ req[r].pc = "conversation"
  /\ conversations' = Append(conversations,
        [userId |-> req[r].user, toolType |-> req[r].tool,
         title |-> Title(req[r].tool, req[r].body.step), updatedAt |-> 0])
  /\ req' = [req EXCEPT ![r].conversationId = Len(conversations) + 1,
                        ![r].pc = "workflow"]
  /\ UNCHANGED <<workflows, steps, submitted>>
  /\ Overlap
  /\ UNCHANGED <<apiVars, adapterVars, libVars>>

\* CreateOrUpdateWorkflow with the update of an existing workflow leaving
\* currentStep out of the data
CreateOrUpdateWorkflowKeepStep(r) ==
  /\ req[r].pc = "workflow"
  /\ IF req[r].workflowId = 0
       THEN IF ConvExists(req[r].conversationId)
              THEN /\ workflows' = Append(workflows,
                        [conversationId |-> req[r].conversationId,
                         toolType |-> req[r].tool,
                         status |-> "running",
                         currentStep |-> req[r].step_number,
                         totalSteps |-> req[r].total_steps,
                         continuationId |-> OrNull(req[r].body.continuation_id),
                         result |-> Null])
                   /\ req' = [req EXCEPT ![r].workflowId = Len(workflows) + 1,
                                         ![r].prior = "new",
                                         ![r].pc = "step"]
              ELSE /\ req' = [req EXCEPT ![r] = Done(r, 500, "fk")]
                   /\ UNCHANGED workflows
       ELSE IF WfExists(req[r].workflowId)
              THEN /\ workflows' = updateWorkflow(req[r].workflowId,
                        [totalSteps |-> req[r].total_steps,
                         status |-> IF req[r].next_step_required
                                      THEN "running" ELSE "completed",
                         continuationId |-> OrNull(req[r].body.continuation_id)])
                   /\ req' = [req EXCEPT
                        ![r].prior = workflows[req[r].workflowId].status,
                        ![r].pc = "step"]
              ELSE /\ req' = [req EXCEPT ![r] = Done(r, 500, "notfound")]
                   /\ UNCHANGED workflows
  /\ UNCHANGED <<conversations, steps, submitted>>
  /\ Overlap
  /\ UNCHANGED <<apiVars, adapterVars, libVars>>

\* lines 93-113: db.createWorkflow / db.updateWorkflow
CreateOrUpdateWorkflow(r) ==
  /\ req[r].pc = "workflow"
  /\ IF req[r].workflowId = 0
       THEN IF ConvExists(req[r].conversationId)
              THEN /\ workflows' = Append(workflows,
                        [conversationId |-> req[r].conversationId,
                         toolType |-> req[r].tool,
                         status |-> "running",
                         currentStep |-> req[r].step_number,
                         totalSteps |-> req[r].total_steps,
                         continuationId |-> OrNull(req[r].body.continuation_id),
                         result |-> Null])
                   /\ req' = [req EXCEPT ![r].workflowId = Len(workflows) + 1,
                                         ![r].prior = "new",
                                         ![r].pc = "step"]
              \* foreign key workflow.conversationId -> conversation.id
              ELSE /\ req' = [req EXCEPT ![r] = Done(r, 500, "fk")]
                   /\ UNCHANGED workflows
       ELSE IF WfExists(req[r].workflowId)
              THEN /\ workflows' = updateWorkflow(req[r].workflowId,
                        [currentStep |-> req[r].step_number,
                         totalSteps |-> req[r].total_steps,
                         status |-> IF req[r].next_step_required
                                      THEN "running" ELSE "completed",
                         continuationId |-> OrNull(req[r].body.continuation_id)])
                   /\ req' = [req EXCEPT
                        ![r].prior = workflows[req[r].workflowId].status,
                        ![r].pc = "step"]
              \* prisma update of a missing record throws
              ELSE /\ req' = [req EXCEPT ![r] = Done(r, 500, "notfound")]
                   /\ UNCHANGED workflows
  /\ UNCHANGED <<conversations, steps, submitted>>
  /\ Overlap
  /\ UNCHANGED <<apiVars, adapterVars, libVars>>

\* SaveWorkflowStep with the write not awaited and lost: executeTool is called
\* with no running record stored
SaveWorkflowStepUnsaved(r) ==
  /\ req[r].pc = "step"
  /\ req' = [req EXCEPT ![r].pc = "execute", ![r].called = TRUE,
                        ![r].payload = params_data(req[r])]
  /\ UNCHANGED <<conversations, workflows, steps, submitted>>
  /\ Overlap
  /\ UNCHANGED <<apiVars, adapterVars, libVars>>

\* lines 115-133: db.createWorkflowStep (running), then exai.executeTool is called
SaveWorkflowStep(r) ==
  /\ req[r].pc = "step"
  /\ steps' = Append(steps,
        [workflowId |-> req[r].workflowId,
         stepNumber |-> req[r].step_number,
         findings |-> req[r].body.findings,
         hypothesis |-> OrNull(req[r].body.hypothesis),
         confidence |-> OrNull(req[r].body.confidence),
         status |-> "running",
         metadata |-> [step |-> req[r].body.step, response |-> Null]])
  /\ req' = [req EXCEPT ![r].pc = "execute", ![r].called = TRUE,
                        ![r].payload = params_data(req[r])]
  /\ UNCHANGED <<conversations, workflows, submitted>>
  /\ Overlap
  /\ UNCHANGED <<apiVars, adapterVars, libVars>>

\* line 133: executeTool resolves with the backend's response
ExecuteToolReturn(r) ==
  /\ req[r].pc = "execute"
  /\ \E resp \in ResponseTo(r) :
       req' = [req EXCEPT ![r].response = resp, ![r].pc = "getsteps"]
  /\ UNCHANGED <<conversations, workflows, steps, submitted>>
  /\ Overlap
  /\ UNCHANGED <<apiVars, adapterVars, libVars>>

\* line 133 -> 171-183: executeTool rejects; the catch answers 500
ExecuteToolThrow(r) ==
  /\ req[r].pc = "execute"
  /\ \E e \in AdapterErrors : req' = [req EXCEPT ![r] = Done(r, 500, e)]
  /\ UNCHANGED <<conversations, workflows, steps, submitted>>
  /\ Overlap
  /\ UNCHANGED <<apiVars, adapterVars, libVars>>

\* lines 136-137: db.getWorkflowSteps, steps.find by step number.  The rows come
\* ordered by stepNumber only, so which of several rows with the same number is
\* first is not determined.
GetWorkflowSteps(r) ==
  /\ req[r].pc = "getsteps"
  /\ LET same == {i \in getWorkflowSteps(req[r].workflowId) :
                    steps[i].stepNumber = req[r].step_number}
     IN IF same = {}
          THEN req' = [req EXCEPT ![r].pc =
                         IF req[r].next_step_required THEN "touch" ELSE "final"]
          ELSE \E i \in same :
                 req' = [req EXCEPT ![r].currentStepRecord = i, ![r].pc = "stepdone"]
  /\ UNCHANGED <<conversations, workflows, steps, submitted>>
  /\ Overlap
  /\ UNCHANGED <<apiVars, adapterVars, libVars>>

\* CompleteWorkflowStep storing the outcome by overwriting the record found
CompleteWorkflowStepInPlace(r) ==
  /\ req[r].pc = "stepdone"
  /\ steps' = [steps EXCEPT ![req[r].currentStepRecord] =
        [@ EXCEPT !.status = "completed",
                  !.metadata = [@ EXCEPT !.response = req[r].response]]]
  /\ req' = [req EXCEPT ![r].pc =
                IF req[r].next_step_required THEN "touch" ELSE "final"]
  /\ UNCHANGED <<conversations, workflows, submitted>>
  /\ Overlap
  /\ UNCHANGED <<apiVars, adapterVars, libVars>>

\* lines 138-151: db.createWorkflowStep (completed)
CompleteWorkflowStep(r) ==
  /\ req[r].pc = "stepdone"
  /\ steps' = Append(steps,
        [workflowId |-> req[r].workflowId,
         stepNumber |-> req[r].step_number,
         findings |-> req[r].body.findings,
         hypothesis |-> OrNull(req[r].body.hypothesis),
         confidence |-> OrNull(req[r].body.confidence),
         status |-> "completed",
         metadata |-> [steps[req[r].currentStepRecord].metadata
                         EXCEPT !.response = req[r].response]])
  /\ req' = [req EXCEPT ![r].pc =
                IF req[r].next_step_required THEN "touch" ELSE "final"]
  /\ UNCHANGED <<conversations, workflows, submitted>>
  /\ Overlap
  /\ UNCHANGED <<apiVars, adapterVars, libVars>>

\* SaveFinalResult with result left out of the update
SaveFinalResultStatusOnly(r) ==
  /\ req[r].pc = "final"
  /\ IF WfExists(req[r].workflowId)
       THEN /\ workflows' = updateWorkflow(req[r].workflowId,
                 [status |-> "completed"])
            /\ req' = [req EXCEPT ![r].pc = "touch"]
       ELSE /\ req' = [req EXCEPT ![r] = Done(r, 500, "notfound")]
            /\ UNCHANGED workflows
  /\ UNCHANGED <<conversations, steps, submitted>>
  /\ Overlap
  /\ UNCHANGED <<apiVars, adapterVars, libVars>>

\* lines 154-159: db.updateWorkflow (completed, result)
SaveFinalResult(r) ==
  /\ req[r].pc = "final"
  /\ IF WfExists(req[r].workflowId)
       THEN /\ workflows' = updateWorkflow(req[r].workflowId,
                 [status |-> "completed", result |-> req[r].response])
            /\ req' = [req EXCEPT ![r].pc = "touch"]
       ELSE /\ req' = [req EXCEPT ![r] = Done(r, 500, "notfound")]
            /\ UNCHANGED workflows
  /\ UNCHANGED <<conversations, steps, submitted>>
  /\ Overlap
  /\ UNCHANGED <<apiVars, adapterVars, libVars>>

\* lines 162-170: db.updateConversation, then the 200 response
TouchConversation(r) ==
  /\ req[r].pc = "touch"
  /\ IF ConvExists(req[r].conversationId)
       THEN /\ conversations' = updateConversation(req[r].conversationId)
            /\ req' = [req EXCEPT ![r] = Done(r, 200, "none")]
       ELSE /\ req' = [req EXCEPT ![r] = Done(r, 500, "notfound")]
            /\ UNCHANGED conversations
  /\ UNCHANGED <<workflows, steps, submitted>>
  /\ Overlap
  /\ UNCHANGED <<apiVars, adapterVars, libVars>>

\* an awaited persistence operation rejects (store unreachable); lines 171-183
PersistenceError(r) ==
  /\ req[r].pc \in {"conversation", "workflow", "step", "getsteps", "stepdone",
                    "final", "touch"}
  /\ req' = [req EXCEPT ![r] = Done(r, 500, "db")]
  /\ UNCHANGED <<conversations, workflows, steps, submitted>>
  /\ Overlap
  /\ UNCHANGED <<apiVars, adapterVars, libVars>>

\* the response has been sent; the handler's frame is gone
Release(r) ==
  /\ req[r].pc = "done"
  /\ req' = [req EXCEPT ![r] = Fresh]
  /\ UNCHANGED <<conversations, workflows, steps, submitted>>
  /\ Overlap
  /\ UNCHANGED <<apiVars, adapterVars, libVars>>

Handler(r, callers, bodies, totals, shapes) ==
  \/ Submit(r, callers, bodies, totals, shapes)
  \/ CreateConversation(r)
  \/ CreateOrUpdateWorkflow(r)
  \/ SaveWorkflowStep(r)
  \/ ExecuteToolReturn(r)
  \/ ExecuteToolThrow(r)
  \/ GetWorkflowSteps(r)
  \/ CompleteWorkflowStep(r)
  \/ SaveFinalResult(r)
  \/ TouchConversation(r)
  \/ PersistenceError(r)
  \/ Release(r)

\* ------------------------------------------------------------ makeRequest
\* LocalExaiAdapter.makeRequest (part_008 21-53) and
\* SupabaseExaiAdapter.makeRequest (SupabaseExaiAdapter.ts 23-55), which
\* executeTool calls with the endpoint `/${tool}`

\* calls of makeRequest in progress at once
NumCalls == 2
\* this.timeout, in ticks of a call's clock
Timeout == 2
\* a call's clock is not followed beyond this
MaxTime == 3

Calls == 1..NumCalls
Adapters == {"LocalExaiAdapter", "SupabaseExaiAdapter"}
\* HTTP status of the backend's answer; response.ok is status 200..299
Statuses == {200, 500, 503}

NoError == [name |-> "none", message |-> <<>>]
\* what fetch and response.json() reject with
AbortError == [name |-> "AbortError", message |-> <<"This operation was aborted">>]
FetchFailed == [name |-> "TypeError", message |-> <<"fetch failed">>]
Terminated == [name |-> "TypeError", message |-> <<"terminated">>]
JsonSyntaxError == [name |-> "SyntaxError", message |-> <<"Unexpected token">>]
\* new Error(`EXAI daemon error: ${response.status} ${response.statusText}`)
DaemonError(status) ==
  [name |-> "Error", message |-> <<"EXAI daemon error: ", status>>]

\* the catch block of makeRequest: every Error is replaced by a new Error
Rethrow(e) ==
  IF e.name = "AbortError"
    THEN [name |-> "Error", message |-> <<"EXAI request timeout">>]
    ELSE [name |-> "Error", message |-> <<"EXAI request failed: ">> \o e.message]

\* the catch block of the gateway (route.ts 179-183)
ErrorResponse(e) == [status |-> 500, error |-> e.message]

\* the environment an adapter is constructed in
Envs ==
  { [EXAI_CLOUD_URL |-> Absent, EXAI_DAEMON_URL |-> Absent],
    [EXAI_CLOUD_URL |-> "https://exai.cloud", EXAI_DAEMON_URL |-> Absent] }
\* a || b of JavaScript on strings
Or(a, b) == IF a \in {Absent, ""} THEN b ELSE a
\* the address an adapter sends to: this.daemonUrl as AdapterFactory passes
\* it to LocalExaiAdapter, this.exaiUrl of SupabaseExaiAdapter
BaseUrl(a, env) ==
  IF a = "LocalExaiAdapter"
    THEN Or(env.EXAI_DAEMON_URL, "http://127.0.0.1:8765")
    ELSE Or(env.EXAI_CLOUD_URL,
            Or(env.EXAI_DAEMON_URL, "http://127.0.0.1:8765"))
\* JSON.stringify of an object: a property whose value is undefined is left out
Stringify(params) ==
  [f \in {g \in DOMAIN params : params[g] # Absent} |-> params[f]]
\* the payloads executeTool is called with
Payloads == {FullBody, [FullBody EXCEPT !.hypothesis = Absent]}
\* a variant in which the cloud adapter posts to the streaming route
executeToolCloudStream(a, env, tool, params) ==
  [method |-> "POST", base |-> BaseUrl(a, env),
   endpoint |-> IF a = "SupabaseExaiAdapter" THEN <<"/", tool, "/stream">>
                ELSE <<"/", tool>>,
   contentType |-> "application/json", body |-> Stringify(params)]
\* executeTool(tool, params): the request makeRequest(`/${tool}`, params) sends
executeTool(a, env, tool, params) ==
  [method |-> "POST", base |-> BaseUrl(a, env), endpoint |-> <<"/", tool>>,
   contentType |-> "application/json", body |-> Stringify(params)]

\* a call before it starts; args, cause and backend are history: the
\* arguments and environment the call was made with, what made it fail, and
\* what the backend did (the status of its headers, 0 when none came, and
\* what came of the connection or of the body)
FreshCall ==
  [pc |-> "idle", adapter |-> "LocalExaiAdapter", timer |-> "none",
   aborted |-> FALSE, elapsed |-> 0, result |-> Null, error |-> NoError,
   cause |-> "none",
   request |-> [method |-> "none", base |-> "", endpoint |-> <<>>,
                contentType |-> "", body |-> <<>>],
   backend |-> [status |-> 0, event |-> "none"],
   args |-> [tool |-> "", params |-> <<>>, env |-> <<>>]]

Throw(c, e, why) ==
  [calls[c] EXCEPT !.pc = "thrown", !.error = Rethrow(e), !.cause = why,
                   !.timer = IF @ = "armed" THEN "cleared" ELSE @]
\* the call fails after the backend did what
ThrowOn(c, e, why, what) == [Throw(c, e, why) EXCEPT !.backend.event = what]

\* new AbortController, setTimeout(abort, this.timeout), fetch is issued
makeRequest(c) ==
  /\ calls[c].pc = "idle"
  /\ \E a \in Adapters, env \in Envs, tool \in ToolNames, params \in Payloads :
       calls' = [calls EXCEPT ![c] =
                   [FreshCall EXCEPT !.pc = "fetch", !.adapter = a,
                                     !.timer = "armed",
                                     !.args = [tool |-> tool, params |-> params,
                                               env |-> env],
                                     !.request =
                                       executeTool(a, env, tool, params)]]
  /\ UNCHANGED <<conversations, gatewayVars, apiVars, libVars>>

\* time passes for a pending call; a due timer fires, or is cleared, first,
\* and an aborted fetch rejects before any time passes
Tick(c) ==
  /\ calls[c].pc \in {"fetch", "body"}
  /\ ~calls[c].aborted
  /\ calls[c].elapsed < MaxTime
  /\ ~(calls[c].timer = "armed" /\ calls[c].elapsed >= Timeout)
  /\ calls' = [calls EXCEPT ![c].elapsed = @ + 1]
  /\ UNCHANGED <<conversations, gatewayVars, apiVars, libVars>>

\* the setTimeout callback: controller.abort()
TimerFires(c) ==
  /\ calls[c].timer = "armed"
  /\ calls[c].elapsed >= Timeout
  /\ calls' = [calls EXCEPT ![c].timer = "fired", ![c].aborted = TRUE]
  /\ UNCHANGED <<conversations, gatewayVars, apiVars, libVars>>

\* fetch resolves with the response headers: clearTimeout, response.ok
FetchResolves(c) ==
  /\ calls[c].pc = "fetch"
  /\ ~calls[c].aborted
  /\ \E st \in Statuses :
       calls' = [calls EXCEPT ![c] =
                   IF st \in 200..299
                     THEN [@ EXCEPT !.pc = "body", !.timer = "cleared",
                                    !.backend.status = st]
                     ELSE [Throw(c, DaemonError(st), "status")
                             EXCEPT !.backend.status = st]]
  /\ UNCHANGED <<conversations, gatewayVars, apiVars, libVars>>

\* fetch rejects because the signal was aborted
FetchAborted(c) ==
  /\ calls[c].pc = "fetch"
  /\ calls[c].aborted
  /\ calls' = [calls EXCEPT ![c] = ThrowOn(c, AbortError, "timeout", "stalled")]
  /\ UNCHANGED <<conversations, gatewayVars, apiVars, libVars>>

\* fetch rejects because the connection failed
FetchFails(c) ==
  /\ calls[c].pc = "fetch"
  /\ ~calls[c].aborted
  /\ calls' = [calls EXCEPT ![c] = ThrowOn(c, FetchFailed, "network", "refused")]
  /\ UNCHANGED <<conversations, gatewayVars, apiVars, libVars>>

\* response.json() resolves: the data is returned
BodyParsed(c) ==
  /\ calls[c].pc = "body"
  /\ \E resp \in Responses :
       calls' = [calls EXCEPT ![c].pc = "returned", ![c].result = resp,
                              ![c].backend.event = resp]
  /\ UNCHANGED <<conversations, gatewayVars, apiVars, libVars>>

\* response.json() rejects: the body is not JSON, or the connection broke
BodyRejects(c) ==
  /\ calls[c].pc = "body"
  /\ \/ calls' = [calls EXCEPT ![c] =
                     ThrowOn(c, JsonSyntaxError, "malformed", "notjson")]
     \/ calls' = [calls EXCEPT ![c] =
                     ThrowOn(c, Terminated, "network", "broken")]
  /\ UNCHANGED <<conversations, gatewayVars, apiVars, libVars>>

\* the caller has the result or the error
ReleaseCall(c) ==
  /\ calls[c].pc \in {"returned", "thrown"}
  /\ calls' = [calls EXCEPT ![c] = FreshCall]
  /\ UNCHANGED <<conversations, gatewayVars, apiVars, libVars>>

Adapter(c) ==
  \/ makeRequest(c)
  \/ Tick(c)
  \/ TimerFires(c)
  \/ FetchResolves(c)
  \/ FetchAborted(c)
  \/ FetchFails(c)
  \/ BodyParsed(c)
  \/ BodyRejects(c)
  \/ ReleaseCall(c)

\* ------------------------------------------------------------ other endpoints
\* POST /api/exai/chat (chat/route.ts), GET and POST /api/conversations
\* (part_010), GET, PUT and DELETE /api/conversations/[id] (health/route.ts
\* 142-264) and GET /api/conversations/[id]/messages (messages/route.ts)

\* concurrent handlers of these endpoints
NumApi == 2
\* requests these endpoints receive in one behaviour
MaxReceived == 2

Api == 1..NumApi
Endpoints ==
  {"chat", "conversations.GET", "conversations.POST", "conversation.GET",
   "conversation.PUT", "conversation.DELETE", "messages.GET"}
\* chatSchema.prompt: z.string().min(1)
Prompts == {"", "hi"}
\* createConversationSchema.toolType: z.string().min(1)
ToolTypes == {"", "chat"}
\* title: z.string().optional(); NotAString stands for a JSON value of another type
NotAString == "not-a-string"
Titles == {Absent, "", "t1", NotAString}
\* ExaiResponse.content is optional
ChatResponses == {[content |-> "a1"], [content |-> Absent]}

\* JavaScript x || '' on an optional string
OrEmpty(x) == IF x = Absent THEN "" ELSE x

\* prisma.message.findMany({ where: { conversationId }, orderBy: createdAt asc })
getMessages(id) ==
  SelectSeq([i \in 1..Len(messages) |-> i], LAMBDA i : messages[i].conversationId = id)

\* prisma.conversation.findMany({ where: { userId } })
getConversations(userId) ==
  {id \in 1..Len(conversations) : ConvExists(id) /\ conversations[id].userId = userId}

\* prisma.conversation.update({ where: { id }, data: { title } }); updatedAt is
\* @updatedAt
updateConversationTitle(id, title) ==
  [conversations EXCEPT ![id].title = title, ![id].updatedAt = @ + 1]

\* rows that refer to the conversation (relations without onDelete)
Referenced(id) ==
  \/ \E i \in 1..Len(messages) : messages[i].conversationId = id
  \/ \E w \in 1..Len(workflows) : workflows[w].conversationId = id

\* a handler's locals before anything is read; touched (a store operation was
\* started) and called (executeChat was invoked) are history
FreshApi ==
  [pc |-> "idle", endpoint |-> Null, user |-> NoUser, id |-> 0,
   conversationId |-> 0, prompt |-> Null, toolType |-> Null, title |-> Absent,
   response |-> Null, result |-> Null, touched |-> FALSE, called |-> FALSE,
   status |-> 0, err |-> "none"]

ApiDone(a, code, e) ==
  [api[a] EXCEPT !.pc = "done", !.status = code, !.err = e, !.touched = TRUE]

\* the session check every handler starts with, and what it does before its
\* first store operation
Receive(a) ==
  /\ api[a].pc = "idle"
  /\ \A b \in Api : b < a => api[b].pc # "idle"
  /\ received < MaxReceived
  /\ submitted > 0 => submitted + received < MaxSubmissions
  /\ received' = received + 1
  /\ \E e \in Endpoints, user \in Sessions :
       LET in == [FreshApi EXCEPT !.endpoint = e, !.user = user] IN
       IF ~Authenticated(user)
         THEN api' = [api EXCEPT ![a] = [in EXCEPT !.pc = "done", !.status = 401]]
       ELSE IF e = "chat"
         THEN \E p \in Prompts, cid \in 0..GhostId :
                /\ cid \in {0, GhostId} \/ ConvExists(cid)
                /\ api' = [api EXCEPT ![a] =
                     IF p = ""
                       THEN [in EXCEPT !.pc = "done", !.prompt = p,
                                       !.status = 400, !.err = "zod"]
                       ELSE [in EXCEPT !.pc = IF cid = 0 THEN "chat.conversation"
                                                        ELSE "chat.usermsg",
                                       !.prompt = p, !.id = cid,
                                       !.conversationId = cid]]
       ELSE IF e = "conversations.GET"
         THEN api' = [api EXCEPT ![a] = [in EXCEPT !.pc = "list"]]
       ELSE IF e = "conversations.POST"
         THEN \E tt \in ToolTypes, t \in Titles :
                api' = [api EXCEPT ![a] =
                  IF tt = "" \/ t = NotAString
                    THEN [in EXCEPT !.pc = "done", !.toolType = tt, !.title = t,
                                    !.status = 400, !.err = "zod"]
                    ELSE [in EXCEPT !.pc = "create", !.toolType = tt,
                                    !.title = t]]
       ELSE \E id \in 1..GhostId :
              /\ id = GhostId \/ id \in 1..Len(conversations)
              /\ api' = [api EXCEPT ![a] = [in EXCEPT !.pc = "load", !.id = id]]
  /\ UNCHANGED <<conversations, deleted, messages, gatewayVars, adapterVars, libVars>>

\* chat 41-48: db.createConversation
ChatCreateConversation(a) ==
  /\ api[a].pc = "chat.conversation"
  /\ conversations' = Append(conversations,
        [userId |-> api[a].user, toolType |-> "chat", title |-> api[a].prompt,
         updatedAt |-> 0])
  /\ api' = [api EXCEPT ![a].conversationId = Len(conversations) + 1,
                        ![a].touched = TRUE, ![a].pc = "chat.usermsg"]
  /\ UNCHANGED <<deleted, messages, received, gatewayVars, adapterVars, libVars>>

\* ChatSaveUserMessage with the write not awaited and lost: executeChat is
\* called with no user message stored
ChatSaveUserMessageUnsaved(a) ==
  /\ api[a].pc = "chat.usermsg"
  /\ api' = [api EXCEPT ![a].touched = TRUE, ![a].called = TRUE,
                        ![a].pc = "chat.execute"]
  /\ UNCHANGED <<conversations, deleted, messages, received, gatewayVars,
                 adapterVars, libVars>>

\* chat 50-73: db.createMessage (user), then exai.executeChat is called
ChatSaveUserMessage(a) ==
  /\ api[a].pc = "chat.usermsg"
  /\ IF ConvExists(api[a].conversationId)
       THEN /\ messages' = Append(messages,
                 [conversationId |-> api[a].conversationId, role |-> "user",
                  content |-> api[a].prompt])
            /\ api' = [api EXCEPT ![a].touched = TRUE, ![a].called = TRUE,
                                  ![a].pc = "chat.execute"]
       \* foreign key message.conversationId -> conversation.id
       ELSE /\ api' = [api EXCEPT ![a] = ApiDone(a, 500, "fk")]
            /\ UNCHANGED messages
  /\ UNCHANGED <<conversations, deleted, received, gatewayVars, adapterVars, libVars>>

\* chat 64-73: executeChat resolves
ExecuteChatReturn(a) ==
  /\ api[a].pc = "chat.execute"
  /\ \E resp \in ChatResponses :
       api' = [api EXCEPT ![a].response = resp, ![a].pc = "chat.assistant"]
  /\ UNCHANGED <<conversations, deleted, messages, received, gatewayVars,
                 adapterVars, libVars>>

\* chat 64 -> 95-107: executeChat rejects; the catch answers 500
ExecuteChatThrow(a) ==
  /\ api[a].pc = "chat.execute"
  /\ \E e \in AdapterErrors : api' = [api EXCEPT ![a] = ApiDone(a, 500, e)]
  /\ UNCHANGED <<conversations, deleted, messages, received, gatewayVars,
                 adapterVars, libVars>>

\* chat 75-84: db.createMessage (assistant)
ChatSaveAssistantMessage(a) ==
  /\ api[a].pc = "chat.assistant"
  /\ IF ConvExists(api[a].conversationId)
       THEN /\ messages' = Append(messages,
                 [conversationId |-> api[a].conversationId, role |-> "assistant",
                  content |-> OrEmpty(api[a].response.content)])
            /\ api' = [api EXCEPT ![a].pc = "chat.touch"]
       ELSE /\ api' = [api EXCEPT ![a] = ApiDone(a, 500, "fk")]
            /\ UNCHANGED messages
  /\ UNCHANGED <<conversations, deleted, received, gatewayVars, adapterVars, libVars>>

\* chat 86-94: db.updateConversation, then the 200 response
ChatTouchConversation(a) ==
  /\ api[a].pc = "chat.touch"
  /\ IF ConvExists(api[a].conversationId)
       THEN /\ conversations' = updateConversation(api[a].conversationId)
            /\ api' = [api EXCEPT ![a] = ApiDone(a, 200, "none")]
       ELSE /\ api' = [api EXCEPT ![a] = ApiDone(a, 500, "notfound")]
            /\ UNCHANGED conversations
  /\ UNCHANGED <<deleted, messages, received, gatewayVars, adapterVars, libVars>>

\* part_010 31-40: db.getConversations
ListConversations(a) ==
  /\ api[a].pc = "list"
  /\ api' = [api EXCEPT ![a] =
        [ApiDone(a, 200, "none") EXCEPT !.result = getConversations(api[a].user)]]
  /\ UNCHANGED <<conversations, deleted, messages, received, gatewayVars,
                 adapterVars, libVars>>

\* part_010 60-69: db.createConversation
PostConversation(a) ==
  /\ api[a].pc = "create"
  /\ conversations' = Append(conversations,
        [userId |-> api[a].user, toolType |-> api[a].toolType,
         title |-> OrNull(api[a].title), updatedAt |-> 0])
  /\ api' = [api EXCEPT ![a] =
        [ApiDone(a, 201, "none") EXCEPT !.conversationId = Len(conversations) + 1]]
  /\ UNCHANGED <<deleted, messages, received, gatewayVars, adapterVars, libVars>>

\* a variant without the ownership check
LoadConversationAnyUser(a) ==
  /\ api[a].pc = "load"
  /\ IF ~ConvExists(api[a].id)
       THEN api' = [api EXCEPT ![a] = ApiDone(a, 404, "none")]
     ELSE IF api[a].endpoint = "conversation.GET"
       THEN api' = [api EXCEPT ![a] =
               [ApiDone(a, 200, "none") EXCEPT !.result = conversations[api[a].id]]]
     ELSE IF api[a].endpoint = "conversation.PUT"
       THEN \E t \in Titles :
              api' = [api EXCEPT ![a] =
                IF t = NotAString
                  THEN [ApiDone(a, 400, "zod") EXCEPT !.title = t]
                  ELSE [@ EXCEPT !.title = t, !.touched = TRUE, !.pc = "update"]]
     ELSE api' = [api EXCEPT ![a].touched = TRUE,
                             ![a].pc = IF api[a].endpoint = "conversation.DELETE"
                                         THEN "delete" ELSE "messages"]
  /\ UNCHANGED <<conversations, deleted, messages, received, gatewayVars,
                 adapterVars, libVars>>

\* db.getConversation, 404, the ownership check, and for PUT the body
LoadConversation(a) ==
  /\ api[a].pc = "load"
  /\ IF ~ConvExists(api[a].id)
       THEN api' = [api EXCEPT ![a] = ApiDone(a, 404, "none")]
     ELSE IF conversations[api[a].id].userId # api[a].user
       THEN api' = [api EXCEPT ![a] = ApiDone(a, 403, "none")]
     ELSE IF api[a].endpoint = "conversation.GET"
       THEN api' = [api EXCEPT ![a] =
               [ApiDone(a, 200, "none") EXCEPT !.result = conversations[api[a].id]]]
     ELSE IF api[a].endpoint = "conversation.PUT"
       THEN \E t \in Titles :
              api' = [api EXCEPT ![a] =
                IF t = NotAString
                  THEN [ApiDone(a, 400, "zod") EXCEPT !.title = t]
                  ELSE [@ EXCEPT !.title = t, !.touched = TRUE, !.pc = "update"]]
     ELSE api' = [api EXCEPT ![a].touched = TRUE,
                             ![a].pc = IF api[a].endpoint = "conversation.DELETE"
                                         THEN "delete" ELSE "messages"]
  /\ UNCHANGED <<conversations, deleted, messages, received, gatewayVars,
                 adapterVars, libVars>>

\* health/route.ts 207-211: db.updateConversation(id, { title: title || null })
PutConversation(a) ==
  /\ api[a].pc = "update"
  /\ IF ConvExists(api[a].id)
       THEN /\ conversations' =
                 updateConversationTitle(api[a].id, OrNull(api[a].title))
            /\ api' = [api EXCEPT ![a] = ApiDone(a, 200, "none")]
       ELSE /\ api' = [api EXCEPT ![a] = ApiDone(a, 500, "notfound")]
            /\ UNCHANGED conversations
  /\ UNCHANGED <<deleted, messages, received, gatewayVars, adapterVars, libVars>>

\* health/route.ts 254-256: db.deleteConversation(id)
DeleteConversation(a) ==
  /\ api[a].pc = "delete"
  /\ IF ConvExists(api[a].id) /\ ~Referenced(api[a].id)
       THEN /\ deleted' = deleted \cup {api[a].id}
            /\ api' = [api EXCEPT ![a] = ApiDone(a, 200, "none")]
       ELSE /\ api' = [api EXCEPT ![a] =
                 ApiDone(a, 500, IF ConvExists(api[a].id) THEN "fk" ELSE "notfound")]
            /\ UNCHANGED deleted
  /\ UNCHANGED <<conversations, messages, received, gatewayVars, adapterVars, libVars>>

\* messages/route.ts 42-44: db.getMessages
GetMessages(a) ==
  /\ api[a].pc = "messages"
  /\ api' = [api EXCEPT ![a] =
        [ApiDone(a, 200, "none") EXCEPT !.result = getMessages(api[a].id)]]
  /\ UNCHANGED <<conversations, deleted, messages, received, gatewayVars,
                 adapterVars, libVars>>

\* an awaited persistence operation rejects (store unreachable)
ApiPersistenceError(a) ==
  /\ api[a].pc \in {"chat.conversation", "chat.usermsg", "chat.assistant",
                    "chat.touch", "list", "create", "load", "update", "delete",
                    "messages"}
  /\ api' = [api EXCEPT ![a] = ApiDone(a, 500, "db")]
  /\ UNCHANGED <<conversations, deleted, messages, received, gatewayVars,
                 adapterVars, libVars>>

\* the response has been sent
ReleaseApi(a) ==
  /\ api[a].pc = "done"
  /\ api' = [api EXCEPT ![a] = FreshApi]
  /\ UNCHANGED <<conversations, deleted, messages, received, gatewayVars,
                 adapterVars, libVars>>

ApiHandler(a) ==
  \/ Receive(a)
  \/ ChatCreateConversation(a)
  \/ ChatSaveUserMessage(a)
  \/ ExecuteChatReturn(a)
  \/ ExecuteChatThrow(a)
  \/ ChatSaveAssistantMessage(a)
  \/ ChatTouchConversation(a)
  \/ ListConversations(a)
  \/ PostConversation(a)
  \/ LoadConversation(a)
  \/ PutConversation(a)
  \/ DeleteConversation(a)
  \/ GetMessages(a)
  \/ ApiPersistenceError(a)
  \/ ReleaseApi(a)

\* ------------------------------------------- persistence adapters
\* LocalDatabaseAdapter (Prisma) and SupabaseDatabaseAdapter (supabase-js),
\* each over its own store, are given the same sequence of operations. A
\* table is a sequence of rows in creation order, a row's id is its index,
\* and a deleted row stays in place with live = FALSE. Time is the number of
\* operations so far.

\* operations in a sequence
MaxDbOps == 4
\* rows a table can hold
MaxDbRows == 2
DbIds == 1..MaxDbRows
\* options.limit or options.offset is not given
NoOption == -1
\* the values of options.limit and of options.offset
OptionValues == {NoOption, 0, 1}
\* the data of updateConversation: UpdateConversationInput
ConversationUpdates == {[title |-> "t2"], [toolType |-> "chat"]}
\* the data of updateWorkflow: UpdateWorkflowInput
WorkflowUpdates ==
  {[status |-> "completed"], [currentStep |-> 2, continuationId |-> "k2"]}

\* what an operation gives its caller
\* kind "row": an entity; "rows": a list; "null"; "void"; "error": it throws
Out(kind, rows) == [kind |-> kind, rows |-> rows]

EmptyStore == [conversations |-> <<>>, workflows |-> <<>>]
FreshDb ==
  [local |-> EmptyStore, supabase |-> EmptyStore,
   out |-> [local |-> Out("void", <<>>), supabase |-> Out("void", <<>>)],
   clock |-> 0, last |-> [name |-> "none"]]

Live(t, id) == id \in 1..Len(t) /\ t[id].live
\* the entity of a row: mapConversation, mapWorkflow
mapConversation(t, id) ==
  [id |-> id, userId |-> t[id].userId, toolType |-> t[id].toolType,
   title |-> t[id].title, updatedAt |-> t[id].updatedAt]
mapWorkflow(t, id) ==
  [id |-> id, conversationId |-> t[id].conversationId,
   status |-> t[id].status, currentStep |-> t[id].currentStep,
   continuationId |-> t[id].continuationId, updatedAt |-> t[id].updatedAt]
\* the fields of data that are columns of the update
Only(data, fields) == [f \in DOMAIN data \cap fields |-> data[f]]
\* ORDER BY updated_at DESC of the conversations a query selects: the ids of
\* sel written at time at or before
RECURSIVE ByUpdatedAtDesc(_, _, _)
ByUpdatedAtDesc(t, sel, at) ==
  IF at = 0 THEN <<>>
  ELSE SelectSeq([i \in 1..Len(t) |-> i],
                 LAMBDA i : i \in sel /\ t[i].updatedAt = at)
         \o ByUpdatedAtDesc(t, sel, at - 1)
\* ORDER BY created_at DESC: ids in falling order
RECURSIVE ByCreatedAtDesc(_, _)
ByCreatedAtDesc(sel, n) ==
  IF n = 0 THEN <<>>
  ELSE (IF n \in sel THEN <<n>> ELSE <<>>) \o ByCreatedAtDesc(sel, n - 1)
\* the conversations of a user, of a tool type when one is given
Selected(t, userId, toolType) ==
  {i \in 1..Len(t) : /\ t[i].live
                     /\ t[i].userId = userId
                     /\ toolType # "" => t[i].toolType = toolType}
Drop(s, n) == SubSeq(s, n + 1, Len(s))
Take(s, n) == SubSeq(s, 1, IF n < Len(s) THEN n ELSE Len(s))
\* the workflows that belong to a conversation
WorkflowsOf(store, id) ==
  {w \in 1..Len(store.workflows) :
     store.workflows[w].live /\ store.workflows[w].conversationId = id}

\* an operation's effect: the store after it and what the caller gets
Effect(store, result) == [store |-> store, out |-> result]

\* ---- LocalDatabaseAdapter
Local_createConversation(store, data, now) ==
  LET t == Append(store.conversations,
                  [live |-> TRUE, userId |-> data.userId,
                   toolType |-> data.toolType, title |-> data.title,
                   updatedAt |-> now])
  IN Effect([store EXCEPT !.conversations = t],
            Out("row", <<mapConversation(t, Len(t))>>))
\* findUnique
Local_getConversation(store, id) ==
  Effect(store, IF Live(store.conversations, id)
                  THEN Out("row", <<mapConversation(store.conversations, id)>>)
                  ELSE Out("null", <<>>))
\* findMany with take: options?.limit, skip: options?.offset
Local_getConversations(store, userId, options) ==
  LET t == store.conversations
      all == ByUpdatedAtDesc(t, Selected(t, userId, options.toolType),
                             MaxDbOps)
      skipped == IF options.offset = NoOption THEN all
                 ELSE Drop(all, options.offset)
      taken == IF options.limit = NoOption THEN skipped
               ELSE Take(skipped, options.limit)
  IN Effect(store, Out("rows", [i \in 1..Len(taken) |-> mapConversation(t, taken[i])]))
\* prisma.conversation.update({ where: { id }, data }); updatedAt is @updatedAt
Local_updateConversation(store, id, data, now) ==
  IF ~Live(store.conversations, id) THEN Effect(store, Out("error", <<>>))
  ELSE LET t == [store.conversations EXCEPT
                   ![id] = [updatedAt |-> now] @@ data @@ @]
       IN Effect([store EXCEPT !.conversations = t],
                 Out("row", <<mapConversation(t, id)>>))
\* prisma.conversation.delete: the relations of the schema name no onDelete,
\* so a conversation that a workflow refers to is not deleted
Local_deleteConversation(store, id) ==
  IF ~Live(store.conversations, id) \/ WorkflowsOf(store, id) # {}
    THEN Effect(store, Out("error", <<>>))
    ELSE Effect([store EXCEPT !.conversations[id].live = FALSE], Out("void", <<>>))
Local_createWorkflow(store, data, now) ==
  IF ~Live(store.conversations, data.conversationId)
    THEN Effect(store, Out("error", <<>>))
    ELSE LET t == Append(store.workflows,
                         [live |-> TRUE,
                          conversationId |-> data.conversationId,
                          status |-> data.status,
                          currentStep |-> data.currentStep,
                          continuationId |-> Null, updatedAt |-> now])
         IN Effect([store EXCEPT !.workflows = t],
                   Out("row", <<mapWorkflow(t, Len(t))>>))
Local_getWorkflow(store, id) ==
  Effect(store, IF Live(store.workflows, id)
                  THEN Out("row", <<mapWorkflow(store.workflows, id)>>)
                  ELSE Out("null", <<>>))
Local_getWorkflows(store, conversationId) ==
  LET ids == ByCreatedAtDesc(WorkflowsOf(store, conversationId),
                             Len(store.workflows))
  IN Effect(store,
            Out("rows", [i \in 1..Len(ids) |-> mapWorkflow(store.workflows, ids[i])]))
\* prisma.workflow.update({ where: { id }, data })
Local_updateWorkflow(store, id, data, now) ==
  IF ~Live(store.workflows, id) THEN Effect(store, Out("error", <<>>))
  ELSE LET t == [store.workflows EXCEPT
                   ![id] = [updatedAt |-> now] @@ data @@ @]
       IN Effect([store EXCEPT !.workflows = t], Out("row", <<mapWorkflow(t, id)>>))
Local_deleteWorkflow(store, id) ==
  IF ~Live(store.workflows, id) THEN Effect(store, Out("error", <<>>))
  ELSE Effect([store EXCEPT !.workflows[id].live = FALSE], Out("void", <<>>))

\* ---- SupabaseDatabaseAdapter
Supabase_createConversation(store, data, now) ==
  LET t == Append(store.conversations,
                  [live |-> TRUE, userId |-> data.userId,
                   toolType |-> data.toolType, title |-> data.title,
                   updatedAt |-> now])
  IN Effect([store EXCEPT !.conversations = t],
            Out("row", <<mapConversation(t, Len(t))>>))
\* select('*').eq('id', id).single(): no row is an error, and gives null
Supabase_getConversation(store, id) ==
  Effect(store, IF Live(store.conversations, id)
                  THEN Out("row", <<mapConversation(store.conversations, id)>>)
                  ELSE Out("null", <<>>))
\* if (options?.limit) query.limit(..); if (options?.offset) query.range(
\* offset, offset + (limit || 50) - 1): an option of 0 is not applied, and
\* the range replaces the limit
Supabase_getConversations(store, userId, options) ==
  LET t == store.conversations
      all == ByUpdatedAtDesc(t, Selected(t, userId, options.toolType),
                             MaxDbOps)
      limited == options.limit \notin {NoOption, 0}
      ranged == options.offset \notin {NoOption, 0}
      got == IF ranged
               THEN Take(Drop(all, options.offset),
                         IF limited THEN options.limit ELSE 50)
               ELSE IF limited THEN Take(all, options.limit) ELSE all
  IN Effect(store, Out("rows", [i \in 1..Len(got) |-> mapConversation(t, got[i])]))
\* update({ title: data.title, updated_at: now }).eq('id', id).select()
\* .single(): a key whose value is undefined is not sent; no row is an error
Supabase_updateConversation(store, id, data, now) ==
  IF ~Live(store.conversations, id) THEN Effect(store, Out("error", <<>>))
  ELSE LET t == [store.conversations EXCEPT
                   ![id] = [updatedAt |-> now] @@ Only(data, {"title"}) @@ @]
       IN Effect([store EXCEPT !.conversations = t],
                 Out("row", <<mapConversation(t, id)>>))
\* delete().eq('id', id): no row is no error; the workflows of the
\* conversation go with it (ON DELETE CASCADE)
Supabase_deleteConversation(store, id) ==
  IF ~Live(store.conversations, id) THEN Effect(store, Out("void", <<>>))
  ELSE Effect([store EXCEPT
                 !.conversations[id].live = FALSE,
                 !.workflows =
                   [w \in 1..Len(store.workflows) |->
                      IF w \in WorkflowsOf(store, id)
                        THEN [store.workflows[w] EXCEPT !.live = FALSE]
                        ELSE store.workflows[w]]],
              Out("void", <<>>))
Supabase_createWorkflow(store, data, now) ==
  IF ~Live(store.conversations, data.conversationId)
    THEN Effect(store, Out("error", <<>>))
    ELSE LET t == Append(store.workflows,
                         [live |-> TRUE,
                          conversationId |-> data.conversationId,
                          status |-> data.status,
                          currentStep |-> data.currentStep,
                          continuationId |-> Null, updatedAt |-> now])
         IN Effect([store EXCEPT !.workflows = t],
                   Out("row", <<mapWorkflow(t, Len(t))>>))
Supabase_getWorkflow(store, id) ==
  Effect(store, IF Live(store.workflows, id)
                  THEN Out("row", <<mapWorkflow(store.workflows, id)>>)
                  ELSE Out("null", <<>>))
Supabase_getWorkflows(store, conversationId) ==
  LET ids == ByCreatedAtDesc(WorkflowsOf(store, conversationId),
                             Len(store.workflows))
  IN Effect(store,
            Out("rows", [i \in 1..Len(ids) |-> mapWorkflow(store.workflows, ids[i])]))
\* a variant that inserts the row when no row has the id
Supabase_updateWorkflowUpsert(store, id, data, now) ==
  IF ~Live(store.workflows, id)
    THEN LET t == Append(store.workflows,
                         [updatedAt |-> now] @@ data @@
                         [live |-> TRUE, conversationId |-> 1,
                          status |-> "pending", currentStep |-> 1,
                          continuationId |-> Null])
         IN Effect([store EXCEPT !.workflows = t],
                   Out("row", <<mapWorkflow(t, Len(t))>>))
    ELSE LET t == [store.workflows EXCEPT
                     ![id] = [updatedAt |-> now] @@ data @@ @]
         IN Effect([store EXCEPT !.workflows = t], Out("row", <<mapWorkflow(t, id)>>))
\* update({ status, current_step, total_steps, continuation_id, result,
\* updated_at }).eq('id', id).select().single()
Supabase_updateWorkflow(store, id, data, now) ==
  IF ~Live(store.workflows, id) THEN Effect(store, Out("error", <<>>))
  ELSE LET t == [store.workflows EXCEPT
                   ![id] = [updatedAt |-> now]
                           @@ Only(data, {"status", "currentStep",
                                          "continuationId"}) @@ @]
       IN Effect([store EXCEPT !.workflows = t], Out("row", <<mapWorkflow(t, id)>>))
Supabase_deleteWorkflow(store, id) ==
  IF ~Live(store.workflows, id) THEN Effect(store, Out("void", <<>>))
  ELSE Effect([store EXCEPT !.workflows[id].live = FALSE], Out("void", <<>>))

\* the effects l and s of operation op on the two stores are recorded
DbStep(op, l, s) ==
  /\ db.clock < MaxDbOps
  /\ db' = [local |-> l.store, supabase |-> s.store,
            out |-> [local |-> l.out, supabase |-> s.out],
            clock |-> db.clock + 1, last |-> op]
  /\ UNCHANGED <<conversations, gatewayVars, apiVars, adapterVars,
                 factory, clients, stream, ui>>

\* the same operation is given to both adapters
DbCall ==
  \/ /\ Len(db.local.conversations) < MaxDbRows
     /\ Len(db.supabase.conversations) < MaxDbRows
     /\ \E u \in Users, title \in {Null, "t1"} :
          LET data == [userId |-> u, toolType |-> "debug", title |-> title]
          IN DbStep([name |-> "createConversation", data |-> data],
                    Local_createConversation(db.local, data, db.clock + 1),
                    Supabase_createConversation(db.supabase, data,
                                                db.clock + 1))
  \/ \E id \in DbIds :
       DbStep([name |-> "getConversation", id |-> id],
              Local_getConversation(db.local, id),
              Supabase_getConversation(db.supabase, id))
  \/ \E u \in Users, limit \in OptionValues, offset \in OptionValues,
        tt \in {"", "debug"} :
       LET options == [limit |-> limit, offset |-> offset, toolType |-> tt]
       IN DbStep([name |-> "getConversations", userId |-> u,
                  options |-> options],
                 Local_getConversations(db.local, u, options),
                 Supabase_getConversations(db.supabase, u, options))
  \/ \E id \in DbIds, data \in ConversationUpdates :
       DbStep([name |-> "updateConversation", id |-> id, data |-> data],
              Local_updateConversation(db.local, id, data, db.clock + 1),
              Supabase_updateConversation(db.supabase, id, data, db.clock + 1))
  \/ \E id \in DbIds :
       DbStep([name |-> "deleteConversation", id |-> id],
              Local_deleteConversation(db.local, id),
              Supabase_deleteConversation(db.supabase, id))
  \/ /\ Len(db.local.workflows) < MaxDbRows
     /\ Len(db.supabase.workflows) < MaxDbRows
     /\ \E c \in DbIds :
          LET data == [conversationId |-> c, status |-> "running",
                       currentStep |-> 1]
          IN DbStep([name |-> "createWorkflow", data |-> data],
                    Local_createWorkflow(db.local, data, db.clock + 1),
                    Supabase_createWorkflow(db.supabase, data, db.clock + 1))
  \/ \E id \in DbIds :
       DbStep([name |-> "getWorkflow", id |-> id],
              Local_getWorkflow(db.local, id),
              Supabase_getWorkflow(db.supabase, id))
  \/ \E c \in DbIds :
       DbStep([name |-> "getWorkflows", id |-> c],
              Local_getWorkflows(db.local, c),
              Supabase_getWorkflows(db.supabase, c))
  \/ \E id \in DbIds, data \in WorkflowUpdates :
       DbStep([name |-> "updateWorkflow", id |-> id, data |-> data],
              Local_updateWorkflow(db.local, id, data, db.clock + 1),
              Supabase_updateWorkflow(db.supabase, id, data, db.clock + 1))
  \/ \E id \in DbIds :
       DbStep([name |-> "deleteWorkflow", id |-> id],
              Local_deleteWorkflow(db.local, id),
              Supabase_deleteWorkflow(db.supabase, id))

\* ------------------------------------------------- adapter factory
\* AdapterFactory keeps one adapter of each kind in static fields. Its
\* getters contain no await, so each is one step of its caller; only
\* healthCheck yields, at the await of the two probes.

\* callers of the factory in flight
NumClients == 2
\* adapters the factory constructs in one behaviour
MaxBuilt == 3
Clients == 1..NumClients
\* process.env.ADAPTER_MODE
AdapterModes == {Absent, "local", "supabase", "cloud"}
\* what an adapter's healthCheck promise does
ProbeOutcomes == {"true", "false", "rejects"}

\* an adapter instance: mode is history, the mode it was constructed for
NoInstance == [id |-> 0, class |-> "null", mode |-> Null]
FreshFactory ==
  [exaiAdapter |-> NoInstance, databaseAdapter |-> NoInstance,
   currentMode |-> Null, ADAPTER_MODE |-> "local", built |-> 0,
   made |-> [exai |-> 0, database |-> 0],
   given |-> [exai |-> {}, database |-> {}]]
\* a caller before it calls; probes is history: what the two probes did
FreshClient ==
  [pc |-> "idle", op |-> "none", exai |-> NoInstance,
   database |-> NoInstance, mode |-> Null, threw |-> "none",
   probes |-> [exai |-> "none", database |-> "none"],
   health |-> [exai |-> FALSE, database |-> FALSE, mode |-> Null],
   answer |-> [status |-> 0, body |-> [status |-> "none"]]]

getMode(f) ==
  IF f.ADAPTER_MODE # "local" /\ f.ADAPTER_MODE # "supabase"
    THEN "local" ELSE f.ADAPTER_MODE

\* what a getter does: the factory after it, and the adapter it returns or
\* the message of the error it throws
Returns(f, inst) == [f |-> f, out |-> inst, threw |-> "none"]
Throws(f, msg) == [f |-> f, out |-> NoInstance, threw |-> msg]

\* a variant that constructs an adapter at every call
getExaiAdapterUncached(f) ==
  LET mode == getMode(f)
      inst == [id |-> f.built + 1, class |-> "LocalExaiAdapter", mode |-> mode]
  IN IF mode = "local"
       THEN Returns([f EXCEPT !.exaiAdapter = inst, !.currentMode = mode,
                              !.built = @ + 1, !.made.exai = @ + 1], inst)
       ELSE Throws(f, "Supabase EXAI adapter not yet implemented")
getExaiAdapter(f) ==
  LET mode == getMode(f)
      inst == [id |-> f.built + 1, class |-> "LocalExaiAdapter", mode |-> mode]
  IN IF f.exaiAdapter # NoInstance /\ f.currentMode = mode
       THEN Returns(f, f.exaiAdapter)
       ELSE IF mode = "local"
         THEN Returns([f EXCEPT !.exaiAdapter = inst, !.currentMode = mode,
                                !.built = @ + 1, !.made.exai = @ + 1], inst)
         ELSE Throws(f, "Supabase EXAI adapter not yet implemented")
\* a variant that returns the cached adapter without comparing the mode
getDatabaseAdapterAnyMode(f) ==
  LET mode == getMode(f)
      inst == [id |-> f.built + 1, class |-> "LocalDatabaseAdapter",
               mode |-> mode]
  IN IF f.databaseAdapter # NoInstance
       THEN Returns(f, f.databaseAdapter)
       ELSE IF mode = "local"
         THEN Returns([f EXCEPT !.databaseAdapter = inst,
                                !.currentMode = mode,
                                !.built = @ + 1, !.made.database = @ + 1],
                      inst)
         ELSE Throws(f, "Supabase database adapter not yet implemented")
getDatabaseAdapter(f) ==
  LET mode == getMode(f)
      inst == [id |-> f.built + 1, class |-> "LocalDatabaseAdapter",
               mode |-> mode]
  IN IF f.databaseAdapter # NoInstance /\ f.currentMode = mode
       THEN Returns(f, f.databaseAdapter)
       ELSE IF mode = "local"
         THEN Returns([f EXCEPT !.databaseAdapter = inst,
                                !.currentMode = mode,
                                !.built = @ + 1, !.made.database = @ + 1],
                      inst)
         ELSE Throws(f, "Supabase database adapter not yet implemented")

\* history: the adapter a getter gave is noted
Given(f, kind, r) ==
  IF r.threw = "none" THEN [f EXCEPT !.given[kind] = @ \cup {r.out.id}] ELSE f
\* history starts anew when the mode changes or the factory is reset
NewEpoch(f) ==
  [f EXCEPT !.made = [exai |-> 0, database |-> 0],
            !.given = [exai |-> {}, database |-> {}]]

FactoryFrame ==
  UNCHANGED <<conversations, gatewayVars, apiVars, adapterVars, db, stream,
              ui>>

\* the environment's ADAPTER_MODE is set to another value
SetMode(m) ==
  /\ m # factory.ADAPTER_MODE
  /\ factory' = [NewEpoch(factory) EXCEPT !.ADAPTER_MODE = m]
  /\ UNCHANGED clients
  /\ FactoryFrame

\* AdapterFactory.reset()
Reset ==
  /\ factory' = [NewEpoch(factory) EXCEPT !.exaiAdapter = NoInstance,
                                          !.databaseAdapter = NoInstance,
                                          !.currentMode = Null]
  /\ UNCHANGED clients
  /\ FactoryFrame

\* a caller calls getExaiAdapter()
CallGetExaiAdapter(c) ==
  /\ clients[c].pc = "idle"
  /\ LET r == getExaiAdapter(factory)
     IN /\ r.f.built <= MaxBuilt
        /\ factory' = Given(r.f, "exai", r)
        /\ clients' = [clients EXCEPT ![c] =
                         [FreshClient EXCEPT !.pc = "got",
                                             !.op = "getExaiAdapter",
                                             !.exai = r.out,
                                             !.threw = r.threw]]
  /\ FactoryFrame

\* a caller calls getDatabaseAdapter()
CallGetDatabaseAdapter(c) ==
  /\ clients[c].pc = "idle"
  /\ LET r == getDatabaseAdapter(factory)
     IN /\ r.f.built <= MaxBuilt
        /\ factory' = Given(r.f, "database", r)
        /\ clients' = [clients EXCEPT ![c] =
                         [FreshClient EXCEPT !.pc = "got",
                                             !.op = "getDatabaseAdapter",
                                             !.database = r.out,
                                             !.threw = r.threw]]
  /\ FactoryFrame

\* the catch block of GET /api/health
HealthError(msg) ==
  [status |-> 500, body |-> [status |-> "error", error |-> msg]]
\* GET /api/health with what checkAdapterHealth() resolved to
HealthResponse(health) ==
  [status |-> IF health.exai /\ health.database THEN 200 ELSE 503,
   body |-> [status |-> IF health.exai /\ health.database
                          THEN "healthy" ELSE "unhealthy",
             mode |-> health.mode,
             exai |-> IF health.exai THEN "connected" ELSE "disconnected",
             database |-> IF health.database THEN "connected"
                          ELSE "disconnected"]]
\* promise.catch(() => false)
Caught(p) == p = "true"

\* GET /api/health up to the await in AdapterFactory.healthCheck: getMode,
\* both getters, and the two probes are started; a getter that throws makes
\* the endpoint answer from its catch block
HealthStart(c) ==
  /\ clients[c].pc = "idle"
  /\ LET e == getExaiAdapter(factory)
         d == getDatabaseAdapter(e.f)
         me == [FreshClient EXCEPT !.op = "health", !.mode = getMode(factory)]
     IN IF e.threw # "none"
          THEN /\ factory' = factory
               /\ clients' = [clients EXCEPT ![c] =
                                [me EXCEPT !.pc = "answered",
                                           !.threw = e.threw,
                                           !.answer = HealthError(e.threw)]]
          ELSE IF d.threw # "none"
            THEN /\ e.f.built <= MaxBuilt
                 /\ factory' = Given(e.f, "exai", e)
                 /\ clients' = [clients EXCEPT ![c] =
                                  [me EXCEPT !.pc = "answered",
                                             !.exai = e.out,
                                             !.threw = d.threw,
                                             !.answer = HealthError(d.threw)]]
            ELSE /\ d.f.built <= MaxBuilt
                 /\ factory' = Given(Given(d.f, "exai", e), "database", d)
                 /\ clients' = [clients EXCEPT ![c] =
                                  [me EXCEPT !.pc = "probing",
                                             !.exai = e.out,
                                             !.database = d.out]]
  /\ FactoryFrame

\* both probes have settled: healthCheck returns and the endpoint answers
HealthProbed(c) ==
  /\ clients[c].pc = "probing"
  /\ \E pe \in ProbeOutcomes, pd \in ProbeOutcomes :
       LET health == [exai |-> Caught(pe), database |-> Caught(pd),
                      mode |-> clients[c].mode]
       IN clients' = [clients EXCEPT ![c].pc = "answered",
                                     ![c].probes = [exai |-> pe,
                                                    database |-> pd],
                                     ![c].health = health,
                                     ![c].answer = HealthResponse(health)]
  /\ UNCHANGED factory
  /\ FactoryFrame

\* the caller is done with what it got
ReleaseClient(c) ==
  /\ clients[c].pc \in {"got", "answered"}
  /\ clients' = [clients EXCEPT ![c] = FreshClient]
  /\ UNCHANGED factory
  /\ FactoryFrame

Factory(c) ==
  \/ CallGetExaiAdapter(c)
  \/ CallGetDatabaseAdapter(c)
  \/ HealthStart(c)
  \/ HealthProbed(c)
  \/ ReleaseClient(c)

\* ------------------------------------------------- streamResponse
\* The generator of both EXAI adapters (the two bodies are the same code).
\* The response body is text: a JSON document per line. A piece of text is a
\* sequence of symbols: "open" and "final" are the JSON of a chunk with
\* is_final false and true, "junk" is text that is not JSON, "nl" is '\n'.

\* reads that give data in one stream
MaxReads == 3
\* longest text of one read
MaxValue == 2
\* pieces of body text: a whole JSON document (a chunk, or the chunk with
\* is_final), the two halves of one, text that is no JSON, and the newline
Symbols == {"open", "final", "head", "tail", "junk", "nl"}
Values == UNION {[1..n -> Symbols] : n \in 1..MaxValue}
FreshStream ==
  [pc |-> "idle", adapter |-> "LocalExaiAdapter", buffer |-> <<>>,
   yielded |-> <<>>, reads |-> 0, error |-> NoError, received |-> <<>>]

\* text.split('\n'): the pieces between the newlines, the last one included
RECURSIVE Split(_)
Split(text) ==
  IF \A i \in 1..Len(text) : text[i] # "nl" THEN <<text>>
  ELSE LET k == CHOOSE i \in 1..Len(text) :
                  text[i] = "nl" /\ \A j \in 1..(i - 1) : text[j] # "nl"
       IN <<SubSeq(text, 1, k - 1)>> \o Split(SubSeq(text, k + 1, Len(text)))
\* JSON.parse(line) as StreamChunk: the line is one JSON document
Parses(line) == line \in {<<"open">>, <<"final">>, <<"head", "tail">>}
JsonParse(line) ==
  [content |-> IF Len(line) = 1 THEN "c" ELSE "ht", is_final |-> line[1] = "final"]
\* the chunks the lines give: a line that is empty or fails to parse is
\* passed over
RECURSIVE ChunksOf(_)
ChunksOf(lines) ==
  IF lines = <<>> THEN <<>>
  ELSE (IF Parses(Head(lines)) THEN <<JsonParse(Head(lines))>> ELSE <<>>)
         \o ChunksOf(Tail(lines))
\* the catch block of streamResponse
RethrowStream(e) ==
  IF e.name = "AbortError"
    THEN [name |-> "Error", message |-> <<"EXAI stream timeout">>]
    ELSE [name |-> "Error", message |-> <<"EXAI stream failed: ">> \o e.message]

StreamFrame ==
  UNCHANGED <<conversations, gatewayVars, apiVars, adapterVars, db,
              factory, clients, ui>>

\* streamResponse(tool, params) is iterated: the timer is set, fetch is issued
StreamStart ==
  /\ stream.pc = "idle"
  /\ \E a \in Adapters :
       stream' = [FreshStream EXCEPT !.pc = "fetch", !.adapter = a]
  /\ StreamFrame

\* fetch resolves: a status that is not OK, or a response without a body,
\* is thrown; otherwise the reader is taken
StreamHeaders ==
  /\ stream.pc = "fetch"
  /\ \E st \in Statuses, body \in BOOLEAN :
       stream' =
         IF st \notin 200..299
           THEN [stream EXCEPT !.pc = "thrown",
                               !.error = RethrowStream(DaemonError(st))]
           ELSE IF ~body
             THEN [stream EXCEPT
                     !.pc = "thrown",
                     !.error = RethrowStream(
                       [name |-> "Error",
                        message |-> <<"Response body is null">>])]
             ELSE [stream EXCEPT !.pc = "reading"]
  /\ StreamFrame

\* the timer fires before the headers came: fetch rejects with AbortError
StreamTimeout ==
  /\ stream.pc = "fetch"
  /\ stream' = [stream EXCEPT !.pc = "thrown",
                              !.error = RethrowStream(AbortError)]
  /\ StreamFrame

\* reader.read() gives data: the complete lines are parsed and their chunks
\* yielded, the text after the last newline stays in the buffer
StreamRead ==
  /\ stream.pc = "reading"
  /\ stream.reads < MaxReads
  /\ \E value \in Values :
       LET lines == Split(stream.buffer \o value)
       IN stream' = [stream EXCEPT
                       !.buffer = lines[Len(lines)],
                       !.yielded = @ \o ChunksOf(SubSeq(lines, 1,
                                                        Len(lines) - 1)),
                       !.reads = @ + 1,
                       !.received = @ \o value]
  /\ StreamFrame

\* StreamDone without the handling of what is left in the buffer
StreamDoneDropsRest ==
  /\ stream.pc = "reading"
  /\ stream' = [stream EXCEPT !.pc = "ended", !.buffer = <<>>]
  /\ StreamFrame

\* reader.read() gives done: what is left in the buffer is parsed, and the
\* generator returns
StreamDone ==
  /\ stream.pc = "reading"
  /\ stream' = [stream EXCEPT !.pc = "ended", !.buffer = <<>>,
                              !.yielded = @ \o ChunksOf(<<stream.buffer>>)]
  /\ StreamFrame

\* reader.read() rejects: the connection broke
StreamBreaks ==
  /\ stream.pc = "reading"
  /\ stream' = [stream EXCEPT !.pc = "thrown",
                              !.error = RethrowStream(Terminated)]
  /\ StreamFrame

\* the consumer has seen the end or the error
StreamRelease ==
  /\ stream.pc \in {"ended", "thrown"}
  /\ stream' = FreshStream
  /\ StreamFrame

\* ------------------------------------------------------------ chat component
\* MCPChatInterface (components/mcp-chat-interface.tsx): the messages state,
\* the WebSocket and the handler of its events.  React state is read by a
\* callback as it was in the render that created the callback; setMessages
\* with an updater function works on the latest messages.

\* WebSocket events the component handles in one behaviour
MaxEvents == 4
\* messages the user sends in one behaviour
MaxSent == 1

\* the component as mounted (lines 58-74); ids are Date.now() readings and 0
\* stands for null.  memo is the streamingMessageId that the current
\* connectWebSocket callback sees, bound the one that the handler of the open
\* socket sees.  History: events and sent count, phase follows the events of
\* the socket since the last message_start, of which started is the index
\* of the message it created, before the messages as they were, and
\* expected the content of the chunks since.
FreshUi ==
  [messages |-> <<>>, streamingMessageId |-> 0, memo |-> 0, bound |-> 0,
   socket |-> "none", now |-> 1, events |-> 0, sent |-> 0,
   phase |-> "none", started |-> 0, before |-> <<>>, expected |-> <<>>]

\* handleWebSocketMessage(data) as created in a render whose
\* streamingMessageId was sid, run at time now on the state u (lines 150-211)
handleWebSocketMessage(u, sid, data, now) ==
  IF data.type = "message_start"
    THEN [u EXCEPT !.messages = Append(@, [id |-> now, role |-> "assistant",
                                           content |-> <<>>,
                                           isStreaming |-> TRUE]),
                   !.streamingMessageId = now]
  ELSE IF data.type = "message_chunk"
    THEN IF sid # 0
           THEN [u EXCEPT !.messages =
                   [i \in 1..Len(@) |->
                      IF @[i].id = sid
                        THEN [@[i] EXCEPT !.content =
                                @ \o (IF data.content = Absent THEN <<>>
                                      ELSE <<data.content>>)]
                        ELSE @[i]]]
           ELSE u
  ELSE IF data.type = "message_end"
    THEN [u EXCEPT !.messages =
            [i \in 1..Len(@) |->
               IF @[i].id = sid THEN [@[i] EXCEPT !.isStreaming = FALSE]
               ELSE @[i]],
                   !.streamingMessageId = 0]
  ELSE [u EXCEPT !.streamingMessageId = 0]

UiFrame ==
  UNCHANGED <<conversations, gatewayVars, apiVars, adapterVars, db, factory,
              clients, stream>>

\* connectWebSocket() and ws.onopen (lines 100-119, 147): the socket's
\* onmessage calls the handleWebSocketMessage this callback closed over
connectWebSocket ==
  /\ ui.socket # "open"
  /\ ui' = [ui EXCEPT !.socket = "open", !.bound = ui.memo, !.phase = "none"]
  /\ UiFrame

\* ws.onclose (lines 139-143)
onclose ==
  /\ ui.socket = "open"
  /\ ui' = [ui EXCEPT !.socket = "closed", !.streamingMessageId = 0,
                      !.phase = "none"]
  /\ UiFrame

\* a dependency of connectWebSocket changes (config.wsUrl or config.authToken
\* is edited, lines 148, 349, 355): the callback is created anew in a render
\* that sees the current streamingMessageId
setConfig ==
  /\ ui.memo # ui.streamingMessageId
  /\ ui' = [ui EXCEPT !.memo = ui.streamingMessageId]
  /\ UiFrame

\* ws.onmessage (lines 121-128): a JSON event arrives, some time after the
\* last reading of the clock or within the same millisecond
onmessage ==
  /\ ui.socket = "open"
  /\ ui.events < MaxEvents
  /\ \E type \in {"message_start", "message_chunk", "message_end", "error"},
        content \in {"a", "b", Absent}, dt \in {0, 1} :
       LET now == ui.now + dt
           u == handleWebSocketMessage(ui, ui.bound,
                                       [type |-> type, content |-> content],
                                       now)
           text == IF content = Absent THEN <<>> ELSE <<content>>
       IN ui' =
            [u EXCEPT
               !.now = now, !.events = @ + 1,
               !.phase = IF type = "message_start" THEN "streaming"
                         ELSE IF type = "message_chunk" THEN
                           (IF @ = "streaming" THEN @ ELSE "none")
                         ELSE IF type = "message_end" THEN
                           (IF @ = "streaming" THEN "ended" ELSE "none")
                         ELSE "none",
               !.started = IF type = "message_start"
                             THEN Len(ui.messages) + 1 ELSE @,
               !.before = IF type = "message_start" THEN ui.messages ELSE @,
               !.expected = IF type = "message_start" THEN <<>>
                            ELSE IF type = "message_chunk" THEN @ \o text
                            ELSE @]
  /\ UiFrame

\* sendMessage() with a non-empty currentMessage while connected (lines
\* 213-251)
sendMessage ==
  /\ ui.socket = "open"
  /\ ui.sent < MaxSent
  /\ \E dt \in {0, 1} :
       ui' = [ui EXCEPT !.now = @ + dt, !.sent = @ + 1,
                        !.messages = Append(@, [id |-> ui.now + dt,
                                                role |-> "user",
                                                content |-> <<"hi">>,
                                                isStreaming |-> FALSE])]
  /\ UiFrame

Init ==
  /\ conversations = <<>>
  /\ workflows = <<>>
  /\ steps = <<>>
  /\ req = [r \in Req |-> Fresh]
  /\ submitted = 0
  /\ overlap = [r \in Req |-> FALSE]
  /\ deleted = {}
  /\ messages = <<>>
  /\ api = [a \in Api |-> FreshApi]
  /\ received = 0
  /\ calls = [c \in Calls |-> FreshCall]
  /\ db = FreshDb
  /\ factory = FreshFactory
  /\ clients = [c \in Clients |-> FreshClient]
  /\ stream = FreshStream
  /\ ui = FreshUi

\* two callers, any interleaving, one body shape
Next == \E r \in Req : Handler(r, Sessions, {FullBody}, TotalSteps, {WellTyped})

Spec == Init /\ [][Next]_vars

\* one caller, any interleaving, every body shape
NextPayload ==
  \E r \in Req : Handler(r, {"u1", NoUser}, Bodies, TotalSteps, {WellTyped})

SpecPayload == Init /\ [][NextPayload]_vars

\* one caller, any interleaving, well-formed and ill-formed bodies
NextValidation ==
  \E r \in Req :
    Handler(r, {"u1", NoUser}, {FullBody} \cup InvalidBodies, {0, MaxStep}, Shapes)

SpecValidation == Init /\ [][NextValidation]_vars

\* the tool execution adapters on their own: calls of makeRequest against a
\* backend that answers, fails or stalls
NextAdapter == \E c \in Calls : Adapter(c)

SpecAdapter == Init /\ [][NextAdapter]_vars

\* the chat, conversation and messages endpoints, two callers, any interleaving
NextApi == \E a \in Api : ApiHandler(a)

SpecApi == Init /\ [][NextApi]_vars

\* every endpoint: the step submission of one caller beside the others
NextEndpoints ==
  \/ \E a \in Api : ApiHandler(a)
  \/ \E r \in Req : Handler(r, {"u1", NoUser}, {FullBody}, TotalSteps, {WellTyped})

SpecEndpoints == Init /\ [][NextEndpoints]_vars

\* both persistence adapters, the same operations in the same order
NextDb == DbCall

SpecDb == Init /\ [][NextDb]_vars

\* the factory under concurrent callers, mode changes and resets
NextFactory ==
  \/ \E c \in Clients : Factory(c)
  \/ \E m \in AdapterModes : SetMode(m)
  \/ Reset

SpecFactory == Init /\ [][NextFactory]_vars

\* one stream, whatever the backend sends
NextStream ==
  \/ StreamStart
  \/ StreamHeaders
  \/ StreamTimeout
  \/ StreamRead
  \/ StreamDone
  \/ StreamBreaks
  \/ StreamRelease

SpecStream == Init /\ [][NextStream]_vars

\* the chat component with its socket and the user
NextUi ==
  \/ connectWebSocket
  \/ onclose
  \/ setConfig
  \/ onmessage
  \/ sendMessage

SpecUi == Init /\ [][NextUi]_vars
\* ------------------------------------------------------------ claims
Workflows == 1..Len(workflows)
StepIds == 1..Len(steps)
\* the handler of r leaves position p in this step, not through a store outage
Leaves(r, p) == req[r].pc = p /\ req'[r].pc # p /\ req'[r].err # "db"
\* the handler of r produces its response in this step
Finishes(r) == InFlight(r) /\ req'[r].pc = "done"
StoreUntouched == UNCHANGED <<conversations, workflows, steps>>
Owner(w) == conversations[workflows[w].conversationId].userId

\* C1: a submission naming a workflow whose stored status is completed or failed
\* is answered 409, and changes no workflow, appends no step, calls no adapter.
C1_TerminalRejected ==
  [][\A r \in Req :
       (/\ Leaves(r, "workflow")
        /\ WfExists(req[r].workflowId)
        /\ workflows[req[r].workflowId].status \in Terminal)
       => (/\ req'[r].pc = "done"
           /\ req'[r].status = 409
           /\ ~req'[r].called
           /\ StoreUntouched)]_vars

\* C2: a submission with next_step_required = false whose adapter call succeeded,
\* whose store operations were all served and which no other submission to the
\* same workflow overlapped, leaves the workflow completed with result equal to
\* the response of that call when it finishes.
C2_FinalStepCompletes ==
  [][\A r \in Req :
       (/\ Finishes(r)
        /\ req'[r].err # "db"
        /\ req[r].response # Null
        /\ ~req[r].next_step_required
        /\ ~overlap'[r])
       => (/\ workflows'[req[r].workflowId].status = "completed"
           /\ workflows'[req[r].workflowId].result = req[r].response)]_vars

\* C2 witness: the last step of an existing workflow answered 200 (Scenario C)
C2_Witness ==
  \E r \in Req :
    /\ req[r].pc = "done" /\ req[r].status = 200
    /\ req[r].workflowIdIn # 0
    /\ ~req[r].next_step_required
    /\ ~overlap[r]
    /\ req[r].response \in Responses
    /\ workflows[req[r].workflowId].status = "completed"
    /\ workflows[req[r].workflowId].result = req[r].response

\* C3: a submission with next_step_required = true that got past the workflow
\* stage, on a workflow it created or on an existing non-terminal one, not
\* overlapped by another submission to that workflow, leaves the workflow
\* running with currentStep equal to its step_number when it finishes.
C3_NextStepRunning ==
  [][\A r \in Req :
       (/\ Finishes(r)
        /\ req[r].next_step_required
        /\ req[r].prior \in {"new", "pending", "running"}
        /\ ~overlap'[r])
       => (/\ workflows'[req[r].workflowId].status = "running"
           /\ workflows'[req[r].workflowId].currentStep = req[r].step_number)]_vars

\* C3 witness: step 2 of an existing running workflow answered 200 (Scenario B)
C3_Witness ==
  \E r \in Req :
    /\ req[r].pc = "done" /\ req[r].status = 200
    /\ req[r].workflowIdIn # 0
    /\ req[r].prior = "running"
    /\ req[r].next_step_required
    /\ ~overlap[r]
    /\ req[r].step_number = 2
    /\ workflows[req[r].workflowId].status = "running"
    /\ workflows[req[r].workflowId].currentStep = 2

\* C4: when the adapter call of a submission fails (no other submission to the
\* workflow in flight), the workflow is running afterwards, whatever
\* next_step_required was, its result is unset and the running step record
\* written before the call is still there.
C4_AdapterFailureKeepsRunning ==
  [][\A r \in Req :
       (/\ req[r].pc = "execute"
        /\ req'[r].pc = "done"
        /\ ~overlap'[r])
       => (/\ workflows'[req[r].workflowId].status = "running"
           /\ workflows'[req[r].workflowId].result = Null
           /\ \E i \in 1..Len(steps') :
                /\ steps'[i].workflowId = req[r].workflowId
                /\ steps'[i].stepNumber = req[r].step_number
                /\ steps'[i].status = "running")]_vars

\* C5: a workflow's currentStep is never lower than the step number of a step of
\* it whose adapter call succeeded (whose completed record is in the log).
C5_CurrentStepNotBelowApplied ==
  \A i \in StepIds :
    steps[i].status = "completed"
      => workflows[steps[i].workflowId].currentStep >= steps[i].stepNumber

\* r, with next_step_required = false, reached a non-terminal workflow and has
\* written its completion and result (lines 155-158)
Completes(r) ==
  /\ ~req[r].next_step_required
  /\ req[r].response # Null
  /\ req[r].prior \in {"new", "pending", "running"}
  /\ req[r].pc = "touch" \/ (req[r].pc = "done" /\ req[r].status = 200)

\* C6: of two overlapping submissions with next_step_required = false to the same
\* workflow, non-terminal when each reached it, at most one writes the completion.
C6_OneCompletionWins ==
  \A r, q \in Req :
    (r # q /\ overlap[r] /\ overlap[q] /\ req[r].workflowId = req[q].workflowId)
      => ~(Completes(r) /\ Completes(q))

\* C7: in every reachable state a completed workflow has a completed step record
\* for its currentStep.
C7_CompletedHasStepRecord ==
  \A w \in Workflows :
    workflows[w].status = "completed"
      => \E i \in StepIds :
           /\ steps[i].workflowId = w
           /\ steps[i].status = "completed"
           /\ steps[i].stepNumber = workflows[w].currentStep

\* a running record of r's workflow and step number with r's findings and
\* confidence
RunningRecordOf(r, i) ==
  /\ steps[i].status = "running"
  /\ steps[i].workflowId = req[r].workflowId
  /\ steps[i].stepNumber = req[r].step_number
  /\ steps[i].findings = req[r].body.findings
  /\ steps[i].confidence =
       (IF req[r].body.confidence = Absent THEN Null ELSE req[r].body.confidence)

\* C8 as claimed: once executeTool was invoked for a submission, a running record
\* with its workflowId, stepNumber, findings, confidence and its hypothesis as
\* sent (null when none was sent) is in the log.
C8_RunningRecordAsSent ==
  \A r \in Req :
    req[r].called
      => \E i \in StepIds :
           /\ RunningRecordOf(r, i)
           /\ steps[i].hypothesis =
                (IF req[r].body.hypothesis = Absent THEN Null
                 ELSE req[r].body.hypothesis)

\* C8 amended: once executeTool was invoked for a submission, a running record
\* with its workflowId, stepNumber, findings and confidence is in the log, with
\* its hypothesis when that is a non-empty string and with null when the
\* hypothesis was omitted or empty.
C8_RunningRecordBeforeCall ==
  \A r \in Req :
    req[r].called
      => \E i \in StepIds :
           /\ RunningRecordOf(r, i)
           /\ req[r].body.hypothesis \in {Absent, ""} => steps[i].hypothesis = Null
           /\ req[r].body.hypothesis \notin {Absent, ""}
                => steps[i].hypothesis = req[r].body.hypothesis

\* C8 witness: the adapter call of a submission with an empty hypothesis is
\* pending and its running record holds null
C8_Witness ==
  \E r \in Req :
    /\ req[r].pc = "execute"
    /\ req[r].body.hypothesis = ""
    /\ \E i \in StepIds : RunningRecordOf(r, i) /\ steps[i].hypothesis = Null

\* C9: a submission naming a conversationId is answered 404 when there is no such
\* conversation and 403 when it belongs to another user, and then changes nothing
\* in the store and calls no adapter.
C9_ConversationChecked ==
  [][\A r \in Req :
       (/\ Leaves(r, "workflow")
        /\ req[r].conversationIdIn # 0
        /\ \/ ~ConvExists(req[r].conversationIdIn)
           \/ conversations[req[r].conversationIdIn].userId # req[r].user)
       => (/\ req'[r].pc = "done"
           /\ req'[r].status = (IF ConvExists(req[r].conversationIdIn)
                                  THEN 403 ELSE 404)
           /\ ~req'[r].called
           /\ StoreUntouched)]_vars

\* C10: a step of a handler changes a workflow, or appends a step record to it,
\* only if the handler's caller owns the workflow's conversation.
C10_OnlyOwnerWrites ==
  [][\A r \in Req :
       req'[r] # req[r]
       => /\ \A w \in Workflows :
               Owner(w) # req[r].user => workflows'[w] = workflows[w]
          /\ Len(steps') > Len(steps)
               => Owner(steps'[Len(steps')].workflowId) = req[r].user]_vars

\* C12: under step submission a workflow's status only moves forward: once it
\* is completed or failed, no step makes it running or pending again.
C12_StatusForwardOnly ==
  [][\A w \in Workflows :
       workflows[w].status \in Terminal => workflows'[w].status \in Terminal]_vars

\* C13: the step log is append-only under step submission: every step of a
\* handler leaves the records already in the log as they are and in place, and
\* the outcome of a call is a new completed record after the running one.
C13_StepLogAppendOnly ==
  [][/\ Len(steps') >= Len(steps)
     /\ Len(steps') <= Len(steps) + 1
     /\ SubSeq(steps', 1, Len(steps)) = steps
     /\ \A r \in Req :
          (req[r].pc = "stepdone" /\ req'[r].pc # "stepdone"
             /\ Len(steps') > Len(steps))
            => /\ steps'[Len(steps')].status = "completed"
               /\ steps'[Len(steps')].metadata.response = req[r].response
               /\ \E i \in StepIds :
                    /\ steps'[i].status = "running"
                    /\ steps'[i].workflowId = req[r].workflowId
                    /\ steps'[i].stepNumber = req[r].step_number]_vars

\* C13 witness: a step number submitted twice to one workflow; both running
\* records and both completed records are in the log
C13_Witness ==
  \E i, j, k, l \in StepIds :
    /\ i < j /\ j < k /\ k < l
    /\ \A n \in {i, j, k, l} :
         /\ steps[n].workflowId = steps[i].workflowId
         /\ steps[n].stepNumber = steps[i].stepNumber
    /\ steps[i].status = "running" /\ steps[j].status = "completed"
    /\ steps[k].status = "running" /\ steps[l].status = "completed"

\* C14: within one workflow the step numbers of its records, in creation order,
\* never decrease.
C14_StepNumbersNonDecreasing ==
  \A i, j \in StepIds :
    (i < j /\ steps[i].workflowId = steps[j].workflowId)
      => steps[i].stepNumber <= steps[j].stepNumber

\* C15: when a submission whose adapter call succeeded finishes with 200, not
\* overlapped by another submission to the workflow, the workflow's
\* continuationId is the continuation id of the adapter's response.
C15_ContinuationFromResponse ==
  [][\A r \in Req :
       (/\ Finishes(r)
        /\ req'[r].status = 200
        /\ ~overlap'[r])
       => workflows'[req[r].workflowId].continuationId
            = OrNull(continuation_id(req[r].response))]_vars

\* the body of q fails validation in one of the ways the claim lists (of the body
\* of an unauthenticated request, never read, only the strings are kept)
FailsValidation(q) ==
  \/ q.body.step \in {"", Absent}
  \/ q.body.findings = Absent
  \/ /\ q.user # NoUser
     /\ \/ q.step_number < 1 \/ q.shape.step_number = "fraction"
        \/ q.total_steps < 1 \/ q.shape.total_steps = "fraction"
        \/ q.shape.next_step_required = "missing"

\* its answer is 400 and it had no effect
Rejected400(r) ==
  /\ req'[r].pc = "done"
  /\ req'[r].status = 400
  /\ ~req'[r].called
  /\ StoreUntouched

\* C16 as claimed: a submission with a tool name outside the allow-list, or
\* whose body fails validation, is answered 400, nothing in the store changes and
\* no store operation or adapter call is awaited for it.
C16_InvalidAnswered400 ==
  [][\A r \in Req :
       (/\ req[r].pc = "idle" /\ req'[r].pc # "idle"
        /\ req'[r].tool \in VALID_TOOLS => FailsValidation(req'[r]))
       => Rejected400(r)]_vars

\* C16 amended: a submission with a tool name outside the allow-list, or from an
\* authenticated caller with a body that fails validation, is answered 400 in the
\* step that receives it (with the fields at fault as details): nothing in the
\* store changes, no store operation or adapter call is awaited for it.
C16_InvalidRejected ==
  [][\A r \in Req :
       (/\ req[r].pc = "idle" /\ req'[r].pc # "idle"
        /\ req'[r].tool \in VALID_TOOLS
             => (req'[r].user # NoUser /\ FailsValidation(req'[r])))
       => (/\ Rejected400(r)
           /\ req'[r].tool \in VALID_TOOLS => req'[r].details # {})]_vars

\* C16 witness: one submission rejected for an empty step and numbers below 1,
\* another for a step_number that is not an integer
C16_Witness ==
  \E r, q \in Req :
    /\ req[r].pc = "done" /\ req[r].status = 400 /\ req[r].user # NoUser
    /\ req[r].details = {"step", "step_number", "total_steps"}
    /\ req[r].body.step = "" /\ req[r].step_number = 0 /\ req[r].total_steps = 0
    /\ req[q].pc = "done" /\ req[q].status = 400 /\ req[q].user # NoUser
    /\ req[q].details = {"step_number"} /\ req[q].step_number >= 1
    /\ req[q].shape.step_number = "fraction"

\* C18: a submission naming a workflowId for which there is no workflow is
\* answered 404 when it reaches the workflow, having created no conversation;
\* it changes nothing in the store and calls no adapter.
C18_MissingWorkflow404 ==
  [][\A r \in Req :
       (/\ Leaves(r, "workflow")
        /\ req[r].workflowIdIn # 0
        /\ ~WfExists(req[r].workflowIdIn))
       => (/\ req'[r].pc = "done"
           /\ req'[r].status = 404
           /\ ~req'[r].called
           /\ req[r].conversationId = req[r].conversationIdIn
           /\ StoreUntouched)]_vars

\* the backend reports a failure of its own (non-OK status)
Unrecoverable == {"daemon"}

\* C19: when the adapter call of a submission fails while the workflow is
\* running, the workflow is failed afterwards if the error is unrecoverable and
\* still running if it is a timeout.
C19_UnrecoverableFails ==
  [][\A r \in Req :
       (/\ req[r].pc = "execute"
        /\ req'[r].pc = "done"
        /\ workflows[req[r].workflowId].status = "running")
       => (/\ req'[r].err \in Unrecoverable
                => workflows'[req[r].workflowId].status = "failed"
           /\ req'[r].err = "timeout"
                => workflows'[req[r].workflowId].status = "running")]_vars

\* what a catch can test of an error without reading its message text
Kind(e) == e.name

\* C20: a makeRequest call that fails because its timeout expired throws an
\* error whose kind differs from the kind of the error of a call that failed for
\* another reason (non-OK status, network failure, malformed body), with either
\* adapter; and the gateway reports a timeout only for a call whose timeout
\* expired.
C20_TimeoutKindDistinct ==
  /\ \A c, d \in Calls :
       (/\ calls[c].pc = "thrown" /\ calls[c].cause = "timeout"
        /\ calls[d].pc = "thrown" /\ calls[d].cause # "timeout")
       => Kind(calls[c].error) # Kind(calls[d].error)
  /\ \A c \in Calls :
       (/\ calls[c].pc = "thrown"
        /\ ErrorResponse(calls[c].error).error = <<"EXAI request timeout">>)
       => calls[c].cause = "timeout" /\ calls[c].timer = "fired"

\* C11: a step of a chat handler stores a message in a conversation, or changes
\* a conversation's updatedAt, only if the handler's caller owns that
\* conversation.
C11_ChatOnlyOwnerWrites ==
  [][\A a \in Api :
       (api[a].endpoint = "chat" /\ api'[a] # api[a])
       => /\ Len(messages') > Len(messages)
               => conversations[messages'[Len(messages')].conversationId].userId
                    = api[a].user
          /\ \A c \in 1..Len(conversations) :
               conversations'[c].updatedAt # conversations[c].updatedAt
                 => conversations[c].userId = api[a].user]_vars

\* the handler of r answers in the step that receives the request, with code
RejectedAtOnce(r, code) ==
  /\ req'[r].pc = "done"
  /\ req'[r].status = code
  /\ ~req'[r].called
  /\ UNCHANGED <<conversations, workflows, steps, deleted, messages>>

\* the same for a handler of the chat, conversation and messages endpoints:
\* no store operation was started, executeChat was not invoked
ApiRejectedAtOnce(a, code) ==
  /\ api'[a].pc = "done"
  /\ api'[a].status = code
  /\ ~api'[a].touched
  /\ ~api'[a].called
  /\ UNCHANGED <<conversations, workflows, steps, deleted, messages>>

\* C17 as claimed: a request without an authenticated user to the step, chat,
\* conversation or messages endpoints is answered 401 at once, with no store
\* operation and no adapter call.
C17_Unauthenticated401 ==
  [][/\ \A r \in Req :
          (req[r].pc = "idle" /\ req'[r].pc # "idle" /\ req'[r].user = NoUser)
            => RejectedAtOnce(r, 401)
     /\ \A a \in Api :
          (api[a].pc = "idle" /\ api'[a].pc # "idle" /\ api'[a].user = NoUser)
            => ApiRejectedAtOnce(a, 401)]_vars

\* C17 amended: a request without an authenticated user to the chat,
\* conversation or messages endpoints, or to the step endpoint of an allow-listed
\* tool, is answered 401 at once, and to the step endpoint with an unknown tool
\* name 400; in every case with no store operation and no adapter call.
C17_UnauthenticatedRejected ==
  [][/\ \A r \in Req :
          (req[r].pc = "idle" /\ req'[r].pc # "idle" /\ req'[r].user = NoUser)
            => RejectedAtOnce(r, IF req'[r].tool \in VALID_TOOLS THEN 401 ELSE 400)
     /\ \A a \in Api :
          (api[a].pc = "idle" /\ api'[a].pc # "idle" /\ api'[a].user = NoUser)
            => ApiRejectedAtOnce(a, 401)]_vars

\* C17 witness: an unauthenticated step submission and an unauthenticated
\* request to one of the other endpoints were answered 401
C17_Witness ==
  \E r \in Req, a \in Api :
    /\ req[r].pc = "done" /\ req[r].user = NoUser /\ req[r].status = 401
    /\ req[r].tool \in VALID_TOOLS
    /\ api[a].pc = "done" /\ api[a].user = NoUser /\ api[a].status = 401
    /\ api[a].endpoint \in Endpoints
    /\ ~api[a].touched /\ ~api[a].called /\ ~req[r].called

\* ---- C21
Started(c) == calls[c].pc # "idle"
Finished(c) == calls[c].pc \in {"returned", "thrown"}
\* a call of each adapter with the same tool name and payload
Twins(c, d) ==
  /\ calls[c].adapter = "LocalExaiAdapter"
  /\ calls[d].adapter = "SupabaseExaiAdapter"
  /\ Started(c) /\ Started(d)
  /\ calls[c].args.tool = calls[d].args.tool
  /\ calls[c].args.params = calls[d].args.params
C22_PersistenceAdaptersEquivalent ==
  /\ db.out.local = db.out.supabase
  /\ db.local = db.supabase

\* ---- C23
UpdateNames == {"updateConversation", "updateWorkflow"}
\* the table an update operation writes
TableOf(store, name) ==
  IF name = "updateConversation" THEN store.conversations ELSE store.workflows
\* the update just made on a store was partial: the row takes the supplied
\* value in every supplied field, keeps its value in every other field but
\* the timestamp, and the returned entity shows the row as stored
PartialUpdate(before, after, out, op) ==
  LET old == TableOf(before, op.name)[op.id]
      new == TableOf(after, op.name)[op.id]
  IN /\ \A f \in DOMAIN op.data : new[f] = op.data[f]
     /\ \A f \in DOMAIN old \ (DOMAIN op.data \cup {"updatedAt"}) :
          new[f] = old[f]
     /\ \A f \in DOMAIN new \ {"live"} : out.rows[1][f] = new[f]
\* C23: every update operation is partial, in both adapters: fields that the
\* input does not supply keep their stored values, supplied fields take the
\* supplied values, and the returned entity shows the stored values
C23_UpdateIsPartial ==
  [][(db'.last.name \in UpdateNames /\ db'.clock # db.clock) =>
       /\ db'.out.local.kind = "row" =>
            PartialUpdate(db.local, db'.local, db'.out.local, db'.last)
       /\ db'.out.supabase.kind = "row" =>
            PartialUpdate(db.supabase, db'.supabase, db'.out.supabase,
                          db'.last)]_vars

\* ---- C24
\* C24: an update of an id that no record has never creates a record: in both
\* adapters the operation fails and the store stays as it was
C24_UpdateOfAbsentIdFails ==
  [][(db'.last.name \in UpdateNames /\ db'.clock # db.clock) =>
       /\ ~Live(TableOf(db.local, db'.last.name), db'.last.id) =>
            db'.out.local.kind = "error" /\ db'.local = db.local
       /\ ~Live(TableOf(db.supabase, db'.last.name), db'.last.id) =>
            db'.out.supabase.kind = "error" /\ db'.supabase = db.supabase]_vars
\* updateWorkflow was called with the id of a workflow that had been deleted
\* from a store that still holds its conversation, and failed in both adapters
C24_Witness ==
  /\ db.last.name = "updateWorkflow"
  /\ \A store \in {db.local, db.supabase} :
       /\ db.last.id \in 1..Len(store.workflows)
       /\ ~store.workflows[db.last.id].live
       /\ \E c \in 1..Len(store.conversations) : store.conversations[c].live
  /\ db.out.local.kind = "error"
  /\ db.out.supabase.kind = "error"

\* ---- C25
\* C25: in every configured mode each getter returns an adapter, and while
\* the mode is unchanged and the factory is not reset every call of a getter
\* returns the same instance
C25_GettersReturnCachedInstance ==
  /\ \A c \in Clients :
       clients[c].pc = "got" =>
         /\ clients[c].threw = "none"
         /\ clients[c].op = "getExaiAdapter" => clients[c].exai # NoInstance
         /\ clients[c].op = "getDatabaseAdapter" =>
              clients[c].database # NoInstance
  /\ Cardinality(factory.given.exai) <= 1
  /\ Cardinality(factory.given.database) <= 1

\* ---- C26
\* an adapter a caller holds is one whose construction was finished
Whole(inst, class) == inst.class = class /\ inst.id \in 1..factory.built
\* C26: under every interleaving of callers no caller receives a partially
\* constructed adapter, and while the mode is unchanged and the factory is
\* not reset at most one adapter of each kind is constructed
C26_OneInstancePerKind ==
  /\ factory.made.exai <= 1
  /\ factory.made.database <= 1
  /\ \A c \in Clients :
       (clients[c].pc \in {"got", "probing"} /\ clients[c].threw = "none") =>
         /\ clients[c].op \in {"getExaiAdapter", "health"} =>
              Whole(clients[c].exai, "LocalExaiAdapter")
         /\ clients[c].op \in {"getDatabaseAdapter", "health"} =>
              Whole(clients[c].database, "LocalDatabaseAdapter")
\* two callers hold the EXAI adapter at once, it is the same one, and it is
\* the only one constructed since the mode was set
C26_Witness ==
  /\ factory.made.exai = 1
  /\ \A c \in Clients :
       /\ clients[c].pc = "got"
       /\ clients[c].op = "getExaiAdapter"
       /\ clients[c].exai = factory.exaiAdapter
       /\ clients[c].exai # NoInstance

\* ---- C27
\* C27: in every configured mode healthCheck returns what each adapter's
\* probe gave (false for a probe that throws) and the active mode, and the
\* health endpoint answers healthy with 200 exactly when both probes gave
\* true and unhealthy with 503 otherwise
C27_HealthReportsProbes ==
  \A c \in Clients :
    (clients[c].op = "health" /\ clients[c].pc = "answered") =>
      LET both == /\ clients[c].probes.exai = "true"
                  /\ clients[c].probes.database = "true"
      IN /\ clients[c].answer.status = IF both THEN 200 ELSE 503
         /\ clients[c].answer.body.status =
              IF both THEN "healthy" ELSE "unhealthy"
         /\ clients[c].health.exai = (clients[c].probes.exai = "true")
         /\ clients[c].health.database = (clients[c].probes.database = "true")
         /\ clients[c].health.mode = clients[c].mode

\* ---- C28
\* C28: a stream that ends without an error is finite and ends with an
\* explicit final marker: the last chunk it yielded has is_final = true, and
\* no chunk was yielded after a chunk with is_final = true
C28_StreamEndsWithFinalChunk ==
  stream.pc = "ended" =>
    /\ stream.yielded # <<>>
    /\ stream.yielded[Len(stream.yielded)].is_final
    /\ \A i \in 1..(Len(stream.yielded) - 1) : ~stream.yielded[i].is_final

\* ---- C29
\* the endpoints of one conversation
ItemEndpoints ==
  {"conversation.GET", "conversation.PUT", "conversation.DELETE",
   "messages.GET"}
Owns(user, id) == conversations[id].userId = user
\* C29: the conversation endpoints are scoped to the caller. A get, update,
\* delete or list-messages request for a conversation of another user is
\* answered 403, one for a conversation that does not exist 404, and neither
\* reveals nor changes anything; such a request succeeds only for the owner;
\* the list holds only the caller's conversations; and a step of a
\* conversation endpoint changes or deletes only conversations of its caller
C29_ConversationsScoped ==
  [][\A a \in Api :
       LET q == api[a]
           p == api'[a]
       IN /\ (q.pc = "load" /\ p.pc # "load" /\ p.err # "db") =>
               /\ ~ConvExists(q.id) => p.pc = "done" /\ p.status = 404
               /\ (ConvExists(q.id) /\ ~Owns(q.user, q.id)) =>
                    p.pc = "done" /\ p.status = 403
          /\ (q.pc # "done" /\ p.pc = "done" /\ p.endpoint \in ItemEndpoints) =>
               /\ p.status \in {403, 404} =>
                    UNCHANGED <<conversations, deleted, messages>>
               /\ p.status = 200 => Owns(p.user, p.id)
          /\ (q.pc = "list" /\ p.status = 200) =>
               \A id \in p.result : Owns(p.user, id)
          /\ (q.endpoint \in ItemEndpoints \cup
                {"conversations.GET", "conversations.POST"} /\ p # q) =>
               /\ \A id \in deleted' \ deleted : Owns(q.user, id)
               /\ \A id \in 1..Len(conversations') :
                    IF id \in 1..Len(conversations)
                      THEN conversations'[id] # conversations[id] =>
                             Owns(q.user, id)
                      ELSE conversations'[id].userId = q.user]_vars
\* a delete request for an existing conversation of another user has been
\* answered 403 and the conversation is still there
C29_Witness ==
  \E a \in Api :
    /\ api[a].pc = "done"
    /\ api[a].endpoint = "conversation.DELETE"
    /\ api[a].status = 403
    /\ ConvExists(api[a].id)
    /\ api[a].user \in Users
    /\ ~Owns(api[a].user, api[a].id)

\* ---- C30
\* the submission of r named neither a conversation nor a workflow
Unbound(q) == q.conversationIdIn = 0 /\ q.workflowIdIn = 0
\* C30: a valid step submission that names neither a conversation nor a
\* workflow creates exactly one conversation, owned by the caller and with
\* the tool as its toolType, and exactly one workflow bound to that
\* conversation with status running, currentStep = step_number and
\* totalSteps = total_steps; and its 200 response carries the two new ids
C30_FirstSubmissionCreatesBoth ==
  [][\A r \in Req :
       (Unbound(req[r]) /\ req'[r] # req[r] /\ InFlight(r)) =>
         /\ Leaves(r, "conversation") =>
              /\ Len(conversations') = Len(conversations) + 1
              /\ SubSeq(conversations', 1, Len(conversations)) = conversations
              /\ req'[r].conversationId = Len(conversations')
              /\ conversations'[Len(conversations')].userId = req[r].user
              /\ conversations'[Len(conversations')].toolType = req[r].tool
         /\ req[r].pc # "conversation" =>
              Len(conversations') = Len(conversations)
         /\ Leaves(r, "workflow") =>
              /\ Len(workflows') = Len(workflows) + 1
              /\ SubSeq(workflows', 1, Len(workflows)) = workflows
              /\ req'[r].workflowId = Len(workflows')
              /\ LET w == workflows'[Len(workflows')]
                 IN /\ w.conversationId = req[r].conversationId
                    /\ w.status = "running"
                    /\ w.currentStep = req[r].step_number
                    /\ w.totalSteps = req[r].total_steps
         /\ req[r].pc # "workflow" => Len(workflows') = Len(workflows)
         /\ (Finishes(r) /\ req'[r].status = 200) =>
              /\ req'[r].conversationId \in 1..Len(conversations')
              /\ req'[r].workflowId \in 1..Len(workflows')
              /\ Owns(req[r].user, req'[r].conversationId)
              /\ workflows'[req'[r].workflowId].conversationId =
                   req'[r].conversationId]_vars
\* two submissions that named nothing have both been answered 200, each with
\* a conversation and a workflow of its own
C30_Witness ==
  /\ \A r \in Req :
       /\ req[r].pc = "done" /\ req[r].status = 200 /\ Unbound(req[r])
       /\ workflows[req[r].workflowId].conversationId = req[r].conversationId
  /\ \E r, q \in Req :
       /\ req[r].conversationId # req[q].conversationId
       /\ req[r].workflowId # req[q].workflowId

\* C31: a 200 answer {conversationId, workflowId, response} names a workflow
\* whose stored conversationId is the conversationId answered, also when the
\* request named a workflow with no conversation or with another one; and no
\* step of a submission changes the conversationId of a workflow.
C31_WorkflowBoundToAnsweredConversation ==
  [][/\ \A r \in Req :
          (Finishes(r) /\ req'[r].status = 200)
          => workflows'[req'[r].workflowId].conversationId = req'[r].conversationId
     /\ \A w \in Workflows :
          workflows'[w].conversationId = workflows[w].conversationId]_vars

\* C32: the payload executeTool is called with holds every field of the
\* validated body with the value the body had, the field no schema entry names
\* included, and the typed fields as they were sent.
C32_PayloadPassedThrough ==
  \A r \in Req :
    req[r].called
      => /\ \A f \in DOMAIN req[r].body :
              f \in DOMAIN req[r].payload /\ req[r].payload[f] = req[r].body[f]
         /\ req[r].payload.step_number = req[r].step_number
         /\ req[r].payload.total_steps = req[r].total_steps
         /\ req[r].payload.next_step_required = req[r].next_step_required

\* C32 witness: executeTool is pending with a payload that carries the
\* tool-specific field as sent, beside an optional field sent as ""
C32_Witness ==
  \E r, q \in Req :
    /\ req[r].pc = "execute"
    /\ req[r].body.trace_mode = "precision"
    /\ req[r].payload.trace_mode = "precision"
    /\ req[q].called
    /\ req[q].body.trace_mode = "" /\ req[q].body.hypothesis = ""
    /\ req[q].payload.trace_mode = "" /\ req[q].payload.hypothesis = ""

\* C33: a call of executeTool is not pending beyond the configured timeout: a
\* call still waiting, for the response headers or for the body, has waited no
\* longer than this.timeout.
C33_CallEndsWithinTimeout ==
  \A c \in Calls :
    calls[c].pc \in {"fetch", "body"} => calls[c].elapsed <= Timeout

\* C34: the completed record appended for a submission whose adapter call
\* succeeded has the metadata of that submission's own running record (the
\* step text it sent) with the adapter's response added, whatever other
\* records with the same stepNumber the workflow holds.
C34_CompletedMetadataIsOwn ==
  [][\A r \in Req :
       (Leaves(r, "stepdone") /\ Len(steps') = Len(steps) + 1)
       => steps'[Len(steps')].metadata =
            [step |-> req[r].body.step, response |-> req[r].response]]_vars

\* records of workflow w with step number n and status st in a step log
CountIn(log, w, n, st) ==
  Cardinality({i \in 1..Len(log) :
                 /\ log[i].workflowId = w
                 /\ log[i].stepNumber = n
                 /\ log[i].status = st})

\* C35: per workflow and stepNumber there are never more completed records
\* than running ones; a submission, its store operations served, appends one
\* running record before the adapter call, one completed record after a call
\* that succeeded (its own running record is always found), and at no other
\* step, so none after a call that failed.
C35_CompletedNeverExceedRunning ==
  [][/\ \A w \in 1..Len(workflows'), n \in StepNumbers :
          CountIn(steps', w, n, "completed") <= CountIn(steps', w, n, "running")
     /\ \A r \in Req :
          /\ Leaves(r, "step")
               => /\ req'[r].called
                  /\ Len(steps') = Len(steps) + 1
                  /\ SubSeq(steps', 1, Len(steps)) = steps
                  /\ steps'[Len(steps')].status = "running"
                  /\ steps'[Len(steps')].workflowId = req[r].workflowId
                  /\ steps'[Len(steps')].stepNumber = req[r].step_number
          /\ Leaves(r, "getsteps") => req'[r].pc = "stepdone"
          /\ Leaves(r, "stepdone")
               => /\ Len(steps') = Len(steps) + 1
                  /\ SubSeq(steps', 1, Len(steps)) = steps
                  /\ steps'[Len(steps')].status = "completed"
                  /\ steps'[Len(steps')].workflowId = req[r].workflowId
                  /\ steps'[Len(steps')].stepNumber = req[r].step_number
          /\ (req'[r] # req[r] /\ req[r].pc \notin {"step", "stepdone"})
               => steps' = steps]_vars

\* C35 witness: two submissions of the same step to one workflow have been
\* answered, one whose adapter call succeeded and one whose call failed: two
\* running records and one completed record
C35_Witness ==
  \E r, q \in Req :
    /\ req[r].pc = "done" /\ req[r].status = 200
    /\ req[q].pc = "done" /\ req[q].called /\ req[q].err \in AdapterErrors
    /\ req[q].workflowId = req[r].workflowId
    /\ req[q].step_number = req[r].step_number
    /\ CountIn(steps, req[r].workflowId, req[r].step_number, "running") = 2
    /\ CountIn(steps, req[r].workflowId, req[r].step_number, "completed") = 1

\* C36: streamResponse yields the chunks of the non-blank lines of the body
\* that parse, in body order, however the body is cut into reads: while it
\* reads, those of the lines already terminated by a newline, and once the body
\* has ended those of every line, the unterminated last one included; a line
\* that does not parse is passed over and later chunks still come.
C36_StreamYieldsParseableLines ==
  LET lines == Split(stream.received)
  IN /\ stream.pc = "reading"
          => stream.yielded = ChunksOf(SubSeq(lines, 1, Len(lines) - 1))
     /\ stream.pc = "ended" => stream.yielded = ChunksOf(lines)

\* C36 witness: the body came in three reads of one piece each, a blank line
\* and then a line cut between two reads and not terminated by a newline; the
\* chunk of that line was yielded when the body ended
C36_Witness ==
  /\ stream.pc = "ended"
  /\ stream.reads = 3
  /\ stream.received = <<"nl", "head", "tail">>
  /\ stream.yielded = <<JsonParse(<<"head", "tail">>)>>

\* C37: after any sequence of mode changes, resets and get calls, an adapter
\* that getExaiAdapter or getDatabaseAdapter returns (called directly or by
\* healthCheck) was constructed for the mode getMode reports at that call.
C37_ReturnedAdapterOfCurrentMode ==
  [][\A c \in Clients :
       (clients[c].pc = "idle" /\ clients'[c].pc # "idle")
       => \A inst \in {clients'[c].exai, clients'[c].database} \ {NoInstance} :
            inst.mode = getMode(factory)]_vars

\* C37 witness: both adapters were constructed, a caller met the supabase mode
\* in between and still holds the error, and after the mode came back another
\* caller was given the cached EXAI adapter
C37_Witness ==
  \E c, d \in Clients :
    /\ factory.built = 2
    /\ factory.made.exai = 0
    /\ getMode(factory) = "local"
    /\ clients[d].threw = "Supabase database adapter not yet implemented"
    /\ clients[c].pc = "got" /\ clients[c].op = "getExaiAdapter"
    /\ clients[c].exai = factory.exaiAdapter
    /\ clients[c].exai.mode = "local"

\* the handler of a leaves position p in this step, not through a store outage
ApiLeaves(a, p) == api[a].pc = p /\ api'[a].pc # p /\ api'[a].err # "db"

\* C38: for a chat request that passed validation, its store operations
\* served: once executeChat was invoked the user message is in the store and
\* stays there; when executeChat succeeded the handler appends one assistant
\* message with the response's content ("" when it has none) and then touches
\* the conversation's updatedAt and answers 200; when executeChat failed the
\* handler answers without storing a message or touching the conversation; and
\* the handler stores a message at no other step.
C38_ChatMessagesAroundCall ==
  [][\A a \in Api :
       /\ api'[a].called
            => \E i \in 1..Len(messages') :
                 messages'[i] = [conversationId |-> api'[a].conversationId,
                                 role |-> "user", content |-> api'[a].prompt]
       /\ ApiLeaves(a, "chat.usermsg") /\ api'[a].called
            => /\ ~api[a].called
               /\ Len(messages') = Len(messages) + 1
               /\ messages'[Len(messages')].role = "user"
       /\ (api[a].pc = "chat.execute" /\ api'[a].pc = "done")
            => /\ messages' = messages
               /\ conversations' = conversations
               /\ api'[a].status = 500
       /\ ApiLeaves(a, "chat.assistant")
            => /\ messages' = Append(messages,
                    [conversationId |-> api[a].conversationId,
                     role |-> "assistant",
                     content |-> IF api[a].response.content = Absent THEN ""
                                 ELSE api[a].response.content])
               /\ api'[a].pc = "chat.touch"
       /\ ApiLeaves(a, "chat.touch")
            => /\ conversations'[api[a].conversationId].updatedAt =
                    conversations[api[a].conversationId].updatedAt + 1
               /\ messages' = messages
               /\ api'[a].status = 200
       /\ (api'[a] # api[a]
             /\ api[a].pc \notin {"chat.usermsg", "chat.assistant"})
            => messages' = messages]_vars

\* C38 witness: one chat request was answered 200 after a response without
\* content, its conversation holding the user message and then an assistant
\* message with content ""; another to the same conversation was answered 500
\* after executeChat failed, leaving its user message and no more
C38_Witness ==
  \E a, b \in Api :
    /\ api[a].endpoint = "chat"
    /\ api[a].pc = "done" /\ api[a].status = 200
    /\ api[a].response.content = Absent
    /\ api[b].pc = "done" /\ api[b].called /\ api[b].err \in AdapterErrors
    /\ api[b].conversationId = api[a].conversationId
    /\ Len(messages) = 3
    /\ \E i \in 1..3 : messages[i].role = "assistant" /\ messages[i].content = ""
    /\ conversations[api[a].conversationId].updatedAt = 1

\* C39: after a message_start, any number of message_chunk events and a
\* message_end on one connection, the assistant message that the message_start
\* created holds the chunks' content in arrival order and is no longer
\* streaming, and the messages there were before it are as they were.
C39_StreamedMessageAssembled ==
  ui.phase = "ended"
    => /\ ui.messages[ui.started].content = ui.expected
       /\ ~ui.messages[ui.started].isStreaming
       /\ \A i \in 1..Len(ui.before) : ui.messages[i] = ui.before[i]
====
